---- MODULE Spec2Model ----
(***************************************************************************)
(* Temporal coverage and consistency engine of aos-timeline-builder:       *)
(* precision-aware ranges (validate.py, joint_residency.py), gap and       *)
(* overlap detection (validate.py) and the joint residence matcher         *)
(* (joint_residency.py).                                                   *)
(*                                                                         *)
(* A datetime.date is modelled by its proleptic Gregorian ordinal, as      *)
(* datetime keeps it: date(y, m, d) builds the ordinal and year(o),        *)
(* month(o), day(o) read its fields back.                                  *)
(***************************************************************************)
EXTENDS Integers, Sequences, FiniteSets, TLC

VARIABLES
  window_start, window_end,   \* the analysis window
  date_arg,                   \* the DateWithPrecision handed to a precision helper
  addresses, employment,      \* the entry lists handed to validate.py
  petitioner, beneficiary,    \* addresses_lived of the two persons of the case
  pc, op,                     \* "ready" | "done", and the routine that ran
  range_start, range_end,     \* results of the precision helpers
  ranges,                     \* result of a range builder
  issues,                     \* result of a detector
  joint,                      \* result of detect_joint_residency_start
  travel_entries,             \* the travel events handed to analyze_travel
  travel,                     \* result of analyze_travel
  ref_id,                     \* the id handed to tag_issues and tag_issue
  tagged                      \* result of tag_issues and tag_issue

vars == <<window_start, window_end, date_arg, addresses, employment,
          petitioner, beneficiary, pc, op, range_start, range_end,
          ranges, issues, joint, travel_entries, travel, ref_id, tagged>>

(***************************************************************************)
(* Bounds of the model.                                                    *)
(***************************************************************************)
\* number of calendar years the model's dates range over (2020 onwards)
NumYears == 3
\* longest entry list handed to a detector
MaxEntries == 2
\* longest address list of one person handed to the joint residence matcher
MaxLived == 2

\* longest list of travel events
MaxEvents == 3

(***************************************************************************)
(* datetime.date and timedelta(days=1)                                     *)
(***************************************************************************)
None == 0

\* None where a string is expected (Optional[str], Optional[MatchType])
NoneStr == "<None>"

Years == 2020..(2019 + NumYears)

IsLeap(y) == (y % 4 = 0 /\ y % 100 # 0) \/ y % 400 = 0

DaysInMonth(y, m) ==
  IF m \in {4, 6, 9, 11} THEN 30
  ELSE IF m = 2 THEN (IF IsLeap(y) THEN 29 ELSE 28)
  ELSE 31

\* days of a common year before the first of month m
DaysBeforeMonthTable == <<0, 31, 59, 90, 120, 151, 181, 212, 243, 273, 304, 334>>

DaysBeforeMonth(y, m) ==
  DaysBeforeMonthTable[m] + (IF m > 2 /\ IsLeap(y) THEN 1 ELSE 0)

\* days before January 1 of year y, counted from 0001-01-01
DaysBeforeYear(y) ==
  (y - 1) * 365 + ((y - 1) \div 4) - ((y - 1) \div 100) + ((y - 1) \div 400)

\* date(y, m, d): the proleptic Gregorian ordinal of a calendar date
date(y, m, d) == DaysBeforeYear(y) + DaysBeforeMonth(y, m) + d

\* the (year, month, day) of an ordinal, by the cycles of 400, 100, 4 and 1
\* years
Fields(o) ==
  LET n0 == o - 1
      n400 == n0 \div 146097
      r400 == n0 % 146097
      n100 == r400 \div 36524
      r100 == r400 % 36524
      n4 == r100 \div 1461
      r4 == r100 % 1461
      n1 == r4 \div 365
      n == r4 % 365
      y == n400 * 400 + 1 + n100 * 100 + n4 * 4 + n1
  IN IF n1 = 4 \/ n100 = 4 THEN <<y - 1, 12, 31>>
     ELSE LET leapyear == n1 = 3 /\ (n4 # 24 \/ n100 = 3)
              m0 == (n + 50) \div 32
              preceding0 == DaysBeforeMonthTable[m0]
                            + (IF m0 > 2 /\ leapyear THEN 1 ELSE 0)
              m == IF preceding0 > n THEN m0 - 1 ELSE m0
              preceding == IF preceding0 > n
                           THEN preceding0
                                - ((IF m \in {4, 6, 9, 11} THEN 30
                                    ELSE IF m = 2 THEN 28 ELSE 31)
                                   + (IF m = 2 /\ leapyear THEN 1 ELSE 0))
                           ELSE preceding0
          IN <<y, m, n - preceding + 1>>

year(o) == Fields(o)[1]
month(o) == Fields(o)[2]
day(o) == Fields(o)[3]

\* the dates of the calendar years of the model
AllDays == date(2020, 1, 1)..date(2019 + NumYears, 12, 31)

max(a, b) == IF a >= b THEN a ELSE b
min(a, b) == IF a <= b THEN a ELSE b

(***************************************************************************)
(* Precision helpers (validate.py)                                         *)
(***************************************************************************)
Precisions == {"day", "month", "year"}

DateWithPrecision(value, precision) == [value |-> value, precision |-> precision]

\* mutant: the day is not taken back from the first of the next month
last_day_of_month_NextFirst(y, m) ==
  IF m = 12 THEN date(y, 12, 31) ELSE date(y, m + 1, 1)

last_day_of_month(y, m) ==
  IF m = 12 THEN date(y, 12, 31) ELSE date(y, m + 1, 1) - 1

precision_range_start(dwp) ==
  IF dwp.precision = "day" THEN dwp.value
  ELSE IF dwp.precision = "month" THEN date(year(dwp.value), month(dwp.value), 1)
  ELSE date(year(dwp.value), 1, 1)

\* mutant: a month-precision end taken as the date itself
precision_range_end_MonthAsDay(dwp) ==
  IF dwp.precision = "year" THEN date(year(dwp.value), 12, 31) ELSE dwp.value

precision_range_end(dwp) ==
  IF dwp.precision = "day" THEN dwp.value
  ELSE IF dwp.precision = "month"
       THEN last_day_of_month(year(dwp.value), month(dwp.value))
  ELSE date(year(dwp.value), 12, 31)

(***************************************************************************)
(* Entries (models.py) and issues (validate.py)                            *)
(***************************************************************************)
AddressEntry(address, date_from, from_precision, date_to, to_precision, address_type) ==
  [address |-> address, date_from |-> date_from, from_precision |-> from_precision,
   date_to |-> date_to, to_precision |-> to_precision, address_type |-> address_type]

EmploymentEntry(employer, date_from, from_precision, date_to, to_precision, employment_type) ==
  [employer |-> employer, date_from |-> date_from, from_precision |-> from_precision,
   date_to |-> date_to, to_precision |-> to_precision,
   employment_type |-> employment_type]

\* the fields that the classes of models.py declare
EmploymentEntryFields ==
  {"employer", "role", "employer_address", "date_from", "date_to", "employment_type",
   "notes"}

TravelEntryFields == {"event_type", "date", "port_or_city", "status_or_class", "notes"}

\* pydantic's BaseModel(**kwargs): a keyword argument that names no declared
\* field is ignored, and the object gets no such attribute
BaseModel(fields, kwargs) == [f \in (DOMAIN kwargs) \cap fields |-> kwargs[f]]

\* obj.name can be read; reading any other name raises AttributeError
HasAttr(obj, name) == name \in DOMAIN obj

\* message and suggested_question are f-strings over a fixed text and the
\* dates and day count formatted into it: kept as the text's kind and the values
Issue(severity, category, kind, from, to, days) ==
  [severity |-> severity, category |-> category,
   message |-> [kind |-> kind, from |-> from, to |-> to, days |-> days],
   suggested_question |-> [kind |-> kind, from |-> from, to |-> to],
   ref_id |-> NoneStr]

(***************************************************************************)
(* list.sort(key=lambda x: (x[0], x[1])): a stable sort by (start, end)    *)
(***************************************************************************)
KeyLE(a, b) == a.start < b.start \/ (a.start = b.start /\ a.end <= b.end)

RECURSIVE InsertSorted(_, _)
InsertSorted(s, x) ==
  IF s = <<>> THEN <<x>>
  ELSE IF KeyLE(Head(s), x) THEN <<Head(s)>> \o InsertSorted(Tail(s), x)
  ELSE <<x>> \o s

RECURSIVE SortRanges(_)
SortRanges(s) ==
  IF s = <<>> THEN <<>>
  ELSE InsertSorted(SortRanges(SubSeq(s, 1, Len(s) - 1)), s[Len(s)])

(***************************************************************************)
(* validate.py: _build_address_ranges, _build_employment_ranges            *)
(***************************************************************************)
\* mutant: an entry ending on window_start itself is skipped
AddressRangeOf_DropAtEdge(e, ws, we) ==
  LET start == precision_range_start(DateWithPrecision(e.date_from, e.from_precision))
      effective_end == IF e.date_to # None THEN e.date_to ELSE we
      end_precision == IF e.date_to # None THEN e.to_precision ELSE "day"
      end == precision_range_end(DateWithPrecision(effective_end, end_precision))
  IN IF end <= ws \/ start > we THEN <<>>
     ELSE <<[start |-> max(start, ws), end |-> min(end, we), entry |-> e]>>

\* one iteration of the loop of _build_address_ranges: the range appended
\* for an entry, or nothing when the entry is skipped
AddressRangeOf(e, ws, we) ==
  LET start == precision_range_start(DateWithPrecision(e.date_from, e.from_precision))
      effective_end == IF e.date_to # None THEN e.date_to ELSE we
      end_precision == IF e.date_to # None THEN e.to_precision ELSE "day"
      end == precision_range_end(DateWithPrecision(effective_end, end_precision))
  IN IF end < ws \/ start > we THEN <<>>
     ELSE <<[start |-> max(start, ws), end |-> min(end, we), entry |-> e]>>

RECURSIVE AddressRangesLoop(_, _, _)
AddressRangesLoop(es, ws, we) ==
  IF es = <<>> THEN <<>>
  ELSE AddressRangeOf(Head(es), ws, we) \o AddressRangesLoop(Tail(es), ws, we)

build_address_ranges(es, ws, we) == SortRanges(AddressRangesLoop(es, ws, we))

EmploymentRangeOf(e, ws, we) ==
  LET start == precision_range_start(DateWithPrecision(e.date_from, e.from_precision))
      effective_end == IF e.date_to # None THEN e.date_to ELSE we
      end_precision == IF e.date_to # None THEN e.to_precision ELSE "day"
      end == precision_range_end(DateWithPrecision(effective_end, end_precision))
  IN IF end < ws \/ start > we THEN <<>>
     ELSE <<[start |-> max(start, ws), end |-> min(end, we), entry |-> e]>>

RECURSIVE EmploymentRangesLoop(_, _, _)
EmploymentRangesLoop(es, ws, we) ==
  IF es = <<>> THEN <<>>
  ELSE EmploymentRangeOf(Head(es), ws, we) \o EmploymentRangesLoop(Tail(es), ws, we)

\* the loop of _build_employment_ranges reads entry.from_precision, and
\* entry.to_precision when date_to is not None: the AttributeError of an entry
\* without them leaves the routine
employment_attribute_error(es) ==
  \E i \in 1..Len(es) :
     \/ ~HasAttr(es[i], "from_precision")
     \/ es[i].date_to # None /\ ~HasAttr(es[i], "to_precision")

build_employment_ranges(es, ws, we) == SortRanges(EmploymentRangesLoop(es, ws, we))

(***************************************************************************)
(* validate.py: gap and overlap detection for the address history          *)
(***************************************************************************)
\* mutants: the one-day boundary moved; the one-day exception forgotten
address_middle_gap_severity_UpToTwo(gap_days) ==
  IF gap_days <= 2 THEN "medium" ELSE "high"

address_middle_gap_severity_AlwaysHigh(gap_days) == "high"

address_middle_gap_severity(gap_days) == IF gap_days = 1 THEN "medium" ELSE "high"

\* mutant: the covered-through mark follows the current range instead of
\* advancing to the maximum
RECURSIVE AddressGapLoop_NoHighWater(_, _, _)
AddressGapLoop_NoHighWater(rs, current_max_end, acc) ==
  IF rs = <<>> THEN <<acc, current_max_end>>
  ELSE LET curr_start == Head(rs).start
           curr_end == Head(rs).end
           gap_from == current_max_end + 1
           gap_to == curr_start - 1
           gap_days == (gap_to - gap_from) + 1
           found == IF curr_start > current_max_end + 1
                    THEN <<Issue(address_middle_gap_severity(gap_days), "address_history",
                                 "middle_gap", gap_from, gap_to, gap_days)>>
                    ELSE <<>>
       IN AddressGapLoop_NoHighWater(Tail(rs), curr_end, acc \o found)

\* the loop over ranges[1:]: <<issues appended, current_max_end>>
RECURSIVE AddressGapLoop(_, _, _)
AddressGapLoop(rs, current_max_end, acc) ==
  IF rs = <<>> THEN <<acc, current_max_end>>
  ELSE LET curr_start == Head(rs).start
           curr_end == Head(rs).end
           gap_from == current_max_end + 1
           gap_to == curr_start - 1
           gap_days == (gap_to - gap_from) + 1
           found == IF curr_start > current_max_end + 1
                    THEN <<Issue(address_middle_gap_severity(gap_days), "address_history",
                                 "middle_gap", gap_from, gap_to, gap_days)>>
                    ELSE <<>>
       IN AddressGapLoop(Tail(rs), max(current_max_end, curr_end), acc \o found)

\* mutant: an empty list returns no issue, as the overlap detector does
detect_address_gaps_EmptyIsFine(es, ws, we) ==
  IF es = <<>> THEN <<>>
  ELSE
    LET raw_ranges == build_address_ranges(es, ws, we) IN
    IF raw_ranges = <<>>
    THEN <<Issue("high", "address_history", "none_overlap", None, None, None)>>
    ELSE
      LET first_start == raw_ranges[1].start
          start_gap == IF first_start > ws
                       THEN <<Issue("high", "address_history", "start_gap",
                                    ws, first_start - 1, None)>>
                       ELSE <<>>
          scan == AddressGapLoop(Tail(raw_ranges), raw_ranges[1].end, start_gap)
          current_max_end == scan[2]
          end_gap == IF current_max_end < we
                     THEN <<Issue("high", "address_history", "end_gap",
                                  current_max_end + 1, we, None)>>
                     ELSE <<>>
      IN scan[1] \o end_gap

detect_address_gaps(es, ws, we) ==
  IF es = <<>>
  THEN <<Issue("high", "address_history", "none_provided", None, None, None)>>
  ELSE
    LET raw_ranges == build_address_ranges(es, ws, we) IN
    IF raw_ranges = <<>>
    THEN <<Issue("high", "address_history", "none_overlap", None, None, None)>>
    ELSE
      LET first_start == raw_ranges[1].start
          start_gap == IF first_start > ws
                       THEN <<Issue("high", "address_history", "start_gap",
                                    ws, first_start - 1, None)>>
                       ELSE <<>>
          scan == AddressGapLoop(Tail(raw_ranges), raw_ranges[1].end, start_gap)
          current_max_end == scan[2]
          end_gap == IF current_max_end < we
                     THEN <<Issue("high", "address_history", "end_gap",
                                  current_max_end + 1, we, None)>>
                     ELSE <<>>
      IN scan[1] \o end_gap

\* mutant: the 30-day threshold taken inclusively
address_overlap_severity_ThirtyMedium(overlap_days) ==
  IF overlap_days = 1 THEN "low"
  ELSE IF overlap_days <= 30 THEN "medium"
  ELSE "high"

address_overlap_severity(overlap_days) ==
  IF overlap_days = 1 THEN "low"
  ELSE IF overlap_days < 30 THEN "medium"
  ELSE "high"

\* mutant: each interval is compared with the one just before it
RECURSIVE AddressOverlapLoop_PrevOnly(_, _, _)
AddressOverlapLoop_PrevOnly(rs, prev, acc) ==
  IF rs = <<>> THEN acc
  ELSE LET curr == Head(rs)
           overlap_from == curr.start
           overlap_to == min(prev.end, curr.end)
           overlap_days == (overlap_to - overlap_from) + 1
           found == IF curr.start <= prev.end
                    THEN <<Issue(address_overlap_severity(overlap_days), "address_history",
                                 "overlap", overlap_from, overlap_to, overlap_days)>>
                    ELSE <<>>
       IN AddressOverlapLoop_PrevOnly(Tail(rs), curr,
                     acc \o found)

\* the loop over ranges[1:], prev being the active range
RECURSIVE AddressOverlapLoop(_, _, _)
AddressOverlapLoop(rs, prev, acc) ==
  IF rs = <<>> THEN acc
  ELSE LET curr == Head(rs)
           overlap_from == curr.start
           overlap_to == min(prev.end, curr.end)
           overlap_days == (overlap_to - overlap_from) + 1
           found == IF curr.start <= prev.end
                    THEN <<Issue(address_overlap_severity(overlap_days), "address_history",
                                 "overlap", overlap_from, overlap_to, overlap_days)>>
                    ELSE <<>>
       IN AddressOverlapLoop(Tail(rs), IF curr.end > prev.end THEN curr ELSE prev,
                     acc \o found)

detect_address_overlaps(es, ws, we) ==
  IF es = <<>> THEN <<>>
  ELSE
    LET rs == build_address_ranges(es, ws, we) IN
    IF Len(rs) < 2 THEN <<>>
    ELSE AddressOverlapLoop(Tail(rs), rs[1], <<>>)

(***************************************************************************)
(* validate.py: gap and overlap detection for the employment history       *)
(***************************************************************************)
employment_middle_gap_severity(gap_days) == IF gap_days = 1 THEN "medium" ELSE "high"

\* mutant: the end of the interval at hand replaces the high-water mark
RECURSIVE EmploymentGapLoop_NoHighWater(_, _, _)
EmploymentGapLoop_NoHighWater(rs, current_max_end, acc) ==
  IF rs = <<>> THEN <<acc, current_max_end>>
  ELSE LET curr_start == Head(rs).start
           curr_end == Head(rs).end
           gap_from == current_max_end + 1
           gap_to == curr_start - 1
           gap_days == (gap_to - gap_from) + 1
           found == IF curr_start > current_max_end + 1
                    THEN <<Issue(employment_middle_gap_severity(gap_days), "employment",
                                 "middle_gap", gap_from, gap_to, gap_days)>>
                    ELSE <<>>
       IN EmploymentGapLoop_NoHighWater(Tail(rs), curr_end, acc \o found)

\* the loop over ranges[1:]: <<issues appended, current_max_end>>
RECURSIVE EmploymentGapLoop(_, _, _)
EmploymentGapLoop(rs, current_max_end, acc) ==
  IF rs = <<>> THEN <<acc, current_max_end>>
  ELSE LET curr_start == Head(rs).start
           curr_end == Head(rs).end
           gap_from == current_max_end + 1
           gap_to == curr_start - 1
           gap_days == (gap_to - gap_from) + 1
           found == IF curr_start > current_max_end + 1
                    THEN <<Issue(employment_middle_gap_severity(gap_days), "employment",
                                 "middle_gap", gap_from, gap_to, gap_days)>>
                    ELSE <<>>
       IN EmploymentGapLoop(Tail(rs), max(current_max_end, curr_end), acc \o found)

detect_employment_gaps(es, ws, we) ==
  IF es = <<>>
  THEN <<Issue("high", "employment", "none_provided", None, None, None)>>
  ELSE
    LET raw_ranges == build_employment_ranges(es, ws, we) IN
    IF raw_ranges = <<>>
    THEN <<Issue("high", "employment", "none_overlap", None, None, None)>>
    ELSE
      LET first_start == raw_ranges[1].start
          start_gap == IF first_start > ws
                       THEN <<Issue("high", "employment", "start_gap",
                                    ws, first_start - 1, None)>>
                       ELSE <<>>
          scan == EmploymentGapLoop(Tail(raw_ranges), raw_ranges[1].end, start_gap)
          current_max_end == scan[2]
          end_gap == IF current_max_end < we
                     THEN <<Issue("high", "employment", "end_gap",
                                  current_max_end + 1, we, None)>>
                     ELSE <<>>
      IN scan[1] \o end_gap

employment_overlap_severity(overlap_days) ==
  IF overlap_days = 1 THEN "low"
  ELSE IF overlap_days < 30 THEN "medium"
  ELSE "high"

\* the loop over ranges[1:], prev being the active range
RECURSIVE EmploymentOverlapLoop(_, _, _)
EmploymentOverlapLoop(rs, prev, acc) ==
  IF rs = <<>> THEN acc
  ELSE LET curr == Head(rs)
           overlap_from == curr.start
           overlap_to == min(prev.end, curr.end)
           overlap_days == (overlap_to - overlap_from) + 1
           found == IF curr.start <= prev.end
                    THEN <<Issue(employment_overlap_severity(overlap_days), "employment",
                                 "overlap", overlap_from, overlap_to, overlap_days)>>
                    ELSE <<>>
       IN EmploymentOverlapLoop(Tail(rs), IF curr.end > prev.end THEN curr ELSE prev,
                     acc \o found)

detect_employment_overlaps(es, ws, we) ==
  IF es = <<>> THEN <<>>
  ELSE
    LET rs == build_employment_ranges(es, ws, we) IN
    IF Len(rs) < 2 THEN <<>>
    ELSE EmploymentOverlapLoop(Tail(rs), rs[1], <<>>)

(***************************************************************************)
(* canonicalize.py: address keys.  A PostalAddress is kept by the fields   *)
(* that vary in the model; city, state, ZIP and country are the same for   *)
(* every address.                                                          *)
(***************************************************************************)
PostalAddress(street_name, unit_type, unit_number) ==
  [street_name |-> street_name, unit_type |-> unit_type, unit_number |-> unit_number]

\* normalize_text: lower-cased, punctuation stripped, whitespace collapsed
normalize_text(t) ==
  IF t \in {"1518 Asterwind Dr", "1518 asterwind dr."} THEN "1518 asterwind dr"
  ELSE IF t = "999 Ninth St" THEN "999 ninth st"
  ELSE IF t = "Apt" THEN "apt"
  ELSE IF t = "Unit" THEN "unit"
  ELSE t

normalize_street(street) == normalize_text(street)

\* _UNIT_TYPE_SYNONYMS maps "apt" and "unit" to themselves
normalize_unit_type(unit_type) == normalize_text(unit_type)

\* spaces removed, upper-cased, punctuation stripped
normalize_unit_number(unit_number) ==
  IF unit_number \in {"2a", " 2 A "} THEN "2A" ELSE unit_number

address_keys(addr) ==
  [strict_key |-> <<normalize_street(addr.street_name), normalize_unit_type(addr.unit_type),
                    normalize_unit_number(addr.unit_number),
                    "charlotte", "NC", "28277", "us">>,
   loose_key |-> <<normalize_street(addr.street_name), "charlotte", "NC", "us">>]

(***************************************************************************)
(* joint_residency.py                                                      *)
(***************************************************************************)
joint_last_day_of_month(y, m) ==
  IF m = 12 THEN date(y, 12, 31) ELSE date(y, m + 1, 1) - 1

joint_precision_range_start(d, precision) ==
  IF precision = "day" THEN d
  ELSE IF precision = "month" THEN date(year(d), month(d), 1)
  ELSE date(year(d), 1, 1)

joint_precision_range_end(d, precision) ==
  IF precision = "day" THEN d
  ELSE IF precision = "month" THEN joint_last_day_of_month(year(d), month(d))
  ELSE date(year(d), 12, 31)

\* one iteration of the loop of _build_ranges
JointRangeOf(e, ws, we) ==
  LET start == joint_precision_range_start(e.date_from, e.from_precision)
      effective_end == IF e.date_to # None THEN e.date_to ELSE we
      end_precision == IF e.date_to # None THEN e.to_precision ELSE "day"
      end == joint_precision_range_end(effective_end, end_precision)
      keys == address_keys(e.address)
  IN IF end < ws \/ start > we THEN <<>>
     ELSE <<[start |-> max(start, ws), end |-> min(end, we), entry |-> e,
             strict_key |-> keys.strict_key, loose_key |-> keys.loose_key]>>

RECURSIVE JointRangesLoop(_, _, _)
JointRangesLoop(es, ws, we) ==
  IF es = <<>> THEN <<>>
  ELSE JointRangeOf(Head(es), ws, we) \o JointRangesLoop(Tail(es), ws, we)

build_ranges(es, ws, we) == SortRanges(JointRangesLoop(es, ws, we))

\* _overlap: <<start, end>>, or <<>> for None
overlap(a_start, a_end, b_start, b_end) ==
  LET start == max(a_start, b_start)
      end == min(a_end, b_end)
  IN IF start <= end THEN <<start, end>> ELSE <<>>

SharedResidenceWindow(start, end, match_type, petitioner_entry, beneficiary_entry) ==
  [start |-> start, end |-> end, match_type |-> match_type,
   petitioner_entry |-> petitioner_entry, beneficiary_entry |-> beneficiary_entry]

\* the body of the double loop: the window appended for (pr, br), if any
\* mutant: a strict match is taken only when the loose keys differ
PairWindow_LooseFirst(pr, br) ==
  LET ov == overlap(pr.start, pr.end, br.start, br.end) IN
  IF ov = <<>> THEN <<>>
  ELSE IF pr.loose_key = br.loose_key
       THEN <<SharedResidenceWindow(ov[1], ov[2], "loose", pr.entry, br.entry)>>
  ELSE IF pr.strict_key = br.strict_key
       THEN <<SharedResidenceWindow(ov[1], ov[2], "strict", pr.entry, br.entry)>>
  ELSE <<>>

PairWindow(pr, br) ==
  LET ov == overlap(pr.start, pr.end, br.start, br.end) IN
  IF ov = <<>> THEN <<>>
  ELSE IF pr.strict_key = br.strict_key
       THEN <<SharedResidenceWindow(ov[1], ov[2], "strict", pr.entry, br.entry)>>
  ELSE IF pr.loose_key = br.loose_key
       THEN <<SharedResidenceWindow(ov[1], ov[2], "loose", pr.entry, br.entry)>>
  ELSE <<>>

RECURSIVE InnerLoop(_, _)
InnerLoop(pr, ben_ranges) ==
  IF ben_ranges = <<>> THEN <<>>
  ELSE PairWindow(pr, Head(ben_ranges)) \o InnerLoop(pr, Tail(ben_ranges))

RECURSIVE OuterLoop(_, _)
OuterLoop(pet_ranges, ben_ranges) ==
  IF pet_ranges = <<>> THEN <<>>
  ELSE InnerLoop(Head(pet_ranges), ben_ranges) \o OuterLoop(Tail(pet_ranges), ben_ranges)

priority(match_type) == IF match_type = "strict" THEN 0 ELSE 1

\* the sort key (w.start, priority[w.match_type], w.end), compared as tuples
\* mutant: the sort key without the match type priority, (w.start, w.end)
WindowKeyLE_NoPriority(a, b) ==
  a.start < b.start \/ (a.start = b.start /\ a.end <= b.end)

WindowKeyLE(a, b) ==
  \/ a.start < b.start
  \/ /\ a.start = b.start
     /\ \/ priority(a.match_type) < priority(b.match_type)
        \/ /\ priority(a.match_type) = priority(b.match_type)
           /\ a.end <= b.end

RECURSIVE InsertWindow(_, _)
InsertWindow(s, x) ==
  IF s = <<>> THEN <<x>>
  ELSE IF WindowKeyLE(Head(s), x) THEN <<Head(s)>> \o InsertWindow(Tail(s), x)
  ELSE <<x>> \o s

RECURSIVE SortWindows(_)
SortWindows(s) ==
  IF s = <<>> THEN <<>>
  ELSE InsertWindow(SortWindows(SubSeq(s, 1, Len(s) - 1)), s[Len(s)])

JointIssue(kind) ==
  [Issue("medium", "joint_residency", kind, None, None, None)
     EXCEPT !.ref_id = "joint_residency"]

\* mutant: only the selected window is asked for its match type
any_strict_FirstOnly(ws) == Head(ws).match_type = "strict"

RECURSIVE any_strict(_)
any_strict(ws) ==
  IF ws = <<>> THEN FALSE
  ELSE Head(ws).match_type = "strict" \/ any_strict(Tail(ws))

JointResidencyResult(first_shared_date, match_type, windows, result_issues) ==
  [first_shared_date |-> first_shared_date, match_type |-> match_type,
   windows |-> windows, issues |-> result_issues]

\* mutant: the issue is decided by the selected window alone
detect_joint_residency_start_BySelected(pet, ben, ws, we) ==
  LET pet_ranges == build_ranges(pet, ws, we)
      ben_ranges == build_ranges(ben, ws, we)
      found == OuterLoop(pet_ranges, ben_ranges)
  IN IF found = <<>>
     THEN JointResidencyResult(None, NoneStr, <<>>, <<JointIssue("no_shared_residence")>>)
     ELSE LET windows == SortWindows(found)
              first == windows[1]
              has_strict == first.match_type = "strict"
          IN JointResidencyResult(first.start, first.match_type, windows,
                                  IF ~has_strict THEN <<JointIssue("loose_only")>>
                                  ELSE <<>>)

detect_joint_residency_start(pet, ben, ws, we) ==
  LET pet_ranges == build_ranges(pet, ws, we)
      ben_ranges == build_ranges(ben, ws, we)
      found == OuterLoop(pet_ranges, ben_ranges)
  IN IF found = <<>>
     THEN JointResidencyResult(None, NoneStr, <<>>, <<JointIssue("no_shared_residence")>>)
     ELSE LET windows == SortWindows(found)
              first == windows[1]
              has_strict == any_strict(windows)
          IN JointResidencyResult(first.start, first.match_type, windows,
                                  IF ~has_strict THEN <<JointIssue("loose_only")>>
                                  ELSE <<>>)

(***************************************************************************)
(* travel_intelligence.py.  An Optional[bool] or Optional[TravelEntry] is  *)
(* Nothing or Some(value).                                                 *)
(***************************************************************************)
Nothing == <<>>

Some(x) == <<x>>

\* the fields of a travel event that analyze_travel reads
TravelEntry(event_type, d, status_or_class, inspected, i94_number) ==
  [event_type |-> event_type, date |-> d, status_or_class |-> status_or_class,
   inspected |-> inspected, i94_number |-> i94_number]

TravelInterval(exit_date, entry_date, days_abroad, is_brief) ==
  [exit_date |-> exit_date, entry_date |-> entry_date,
   days_abroad |-> days_abroad, is_brief |-> is_brief]

TravelAnalysisResult(intervals, result_issues, last_event_type, last_event_date, inferred_in_us) ==
  [intervals |-> intervals, issues |-> result_issues,
   last_event_type |-> last_event_type, last_event_date |-> last_event_date,
   inferred_in_us |-> inferred_in_us]

days_inclusive(d1, d2) == (d2 - d1) + 1

ranges_overlap(a_start, a_end, b_start, b_end) ==
  max(a_start, b_start) <= min(a_end, b_end)

\* events = [e for e in travel_entries if window_start <= e.date <= window_end]
RECURSIVE InWindow(_, _, _)
InWindow(es, ws, we) ==
  IF es = <<>> THEN <<>>
  ELSE (IF ws <= Head(es).date /\ Head(es).date <= we THEN <<Head(es)>> ELSE <<>>)
       \o InWindow(Tail(es), ws, we)

\* mutant: on one day the entry is ranked before the exit
event_rank_EntryFirst(e) == IF e.event_type = "exit" THEN 1 ELSE 0

\* the sort key (e.date, 0 if e.event_type == "exit" else 1), compared as tuples
event_rank(e) == IF e.event_type = "exit" THEN 0 ELSE 1

\* mutant: the sort key is the date alone
EventKeyLE_DateOnly(a, b) == a.date <= b.date

EventKeyLE(a, b) ==
  a.date < b.date \/ (a.date = b.date /\ event_rank(a) <= event_rank(b))

RECURSIVE InsertEvent(_, _)
InsertEvent(s, x) ==
  IF s = <<>> THEN <<x>>
  ELSE IF EventKeyLE(Head(s), x) THEN <<Head(s)>> \o InsertEvent(Tail(s), x)
  ELSE <<x>> \o s

RECURSIVE SortEvents(_)
SortEvents(s) ==
  IF s = <<>> THEN <<>>
  ELSE InsertEvent(SortEvents(SubSeq(s, 1, Len(s) - 1)), s[Len(s)])

TravelIssue(severity, kind, from, to, days) ==
  Issue(severity, "travel", kind, from, to, days)

\* the locals of the scan
ScanState(last_exit, last_event_seen, scan_issues, intervals) ==
  [last_exit |-> last_exit, last_event_seen |-> last_event_seen,
   issues |-> scan_issues, intervals |-> intervals]

\* mutant: only consecutive exits are reported
SameTypeIssue_ExitsOnly(st, e) ==
  IF /\ st.last_event_seen # Nothing
     /\ st.last_event_seen[1].event_type = e.event_type
     /\ e.event_type = "exit"
  THEN <<TravelIssue("high", "two_exits_in_a_row",
                     st.last_event_seen[1].date, e.date, None)>>
  ELSE <<>>

\* the issue of the check for consecutive events of one type, if any
SameTypeIssue(st, e) ==
  IF st.last_event_seen # Nothing /\ st.last_event_seen[1].event_type = e.event_type
  THEN IF e.event_type = "exit"
       THEN <<TravelIssue("high", "two_exits_in_a_row",
                          st.last_event_seen[1].date, e.date, None)>>
       ELSE <<TravelIssue("high", "two_entries_in_a_row",
                          st.last_event_seen[1].date, e.date, None)>>
  ELSE <<>>

\* mutant: an absence is extended only beyond 180 days
duration_issue_Over180(exit_date, entry_date, days_abroad, is_brief) ==
  IF ~is_brief
  THEN IF days_abroad > 180
       THEN <<TravelIssue("high", "extended_absence", exit_date, entry_date, days_abroad)>>
       ELSE IF days_abroad >= 90
       THEN <<TravelIssue("medium", "significant_absence", exit_date, entry_date,
                          days_abroad)>>
       ELSE <<>>
  ELSE <<>>

duration_issue(exit_date, entry_date, days_abroad, is_brief) ==
  IF ~is_brief
  THEN IF days_abroad >= 180
       THEN <<TravelIssue("high", "extended_absence", exit_date, entry_date, days_abroad)>>
       ELSE IF days_abroad >= 90
       THEN <<TravelIssue("medium", "significant_absence", exit_date, entry_date,
                          days_abroad)>>
       ELSE <<>>
  ELSE <<>>

\* mutant: an entry with no exit pending is rated high at every position
unpaired_entry_issue_AlwaysHigh(idx, e) ==
  <<TravelIssue("high", "entry_without_exit", e.date, None, None)>>

\* the issue for an entry while no exit is pending
unpaired_entry_issue(idx, e) ==
  IF idx = 0
  THEN <<TravelIssue("low", "first_event_entry", e.date, None, None)>>
  ELSE <<TravelIssue("high", "entry_without_exit", e.date, None, None)>>

\* mutant: a same-day trip is closed without being recorded
ScanStep_SkipBrief(st, idx, e) ==
  LET same == SameTypeIssue(st, e) IN
  IF e.event_type = "exit"
  THEN ScanState(Some(e), Some(e),
                 st.issues \o same
                   \o (IF st.last_exit # Nothing
                       THEN <<TravelIssue("high", "multiple_exits",
                                          st.last_exit[1].date, None, None)>>
                       ELSE <<>>),
                 st.intervals)
  ELSE IF st.last_exit = Nothing
  THEN ScanState(st.last_exit, Some(e),
                 st.issues \o same
                   \o unpaired_entry_issue(idx, e),
                 st.intervals)
  ELSE LET days_abroad == days_inclusive(st.last_exit[1].date, e.date)
           is_brief == days_abroad = 1
       IN ScanState(Nothing, Some(e),
                    st.issues \o same
                      \o duration_issue(st.last_exit[1].date, e.date, days_abroad, is_brief),
                    IF is_brief THEN st.intervals
                    ELSE Append(st.intervals,
                                TravelInterval(st.last_exit[1].date, e.date, days_abroad,
                                               is_brief)))

\* mutant: an exit does not replace the exit that is pending
ScanStep_KeepPending(st, idx, e) ==
  LET same == SameTypeIssue(st, e) IN
  IF e.event_type = "exit"
  THEN ScanState(IF st.last_exit # Nothing THEN st.last_exit ELSE Some(e), Some(e),
                 st.issues \o same
                   \o (IF st.last_exit # Nothing
                       THEN <<TravelIssue("high", "multiple_exits",
                                          st.last_exit[1].date, None, None)>>
                       ELSE <<>>),
                 st.intervals)
  ELSE IF st.last_exit = Nothing
  THEN ScanState(st.last_exit, Some(e),
                 st.issues \o same
                   \o unpaired_entry_issue(idx, e),
                 st.intervals)
  ELSE LET days_abroad == days_inclusive(st.last_exit[1].date, e.date)
           is_brief == days_abroad = 1
       IN ScanState(Nothing, Some(e),
                    st.issues \o same
                      \o duration_issue(st.last_exit[1].date, e.date, days_abroad, is_brief),
                    Append(st.intervals,
                           TravelInterval(st.last_exit[1].date, e.date, days_abroad,
                                          is_brief)))

\* one iteration of the loop over enumerate(events); idx counts from 0
ScanStep(st, idx, e) ==
  LET same == SameTypeIssue(st, e) IN
  IF e.event_type = "exit"
  THEN ScanState(Some(e), Some(e),
                 st.issues \o same
                   \o (IF st.last_exit # Nothing
                       THEN <<TravelIssue("high", "multiple_exits",
                                          st.last_exit[1].date, None, None)>>
                       ELSE <<>>),
                 st.intervals)
  ELSE IF st.last_exit = Nothing
  THEN ScanState(st.last_exit, Some(e),
                 st.issues \o same
                   \o unpaired_entry_issue(idx, e),
                 st.intervals)
  ELSE LET days_abroad == days_inclusive(st.last_exit[1].date, e.date)
           is_brief == days_abroad = 1
       IN ScanState(Nothing, Some(e),
                    st.issues \o same
                      \o duration_issue(st.last_exit[1].date, e.date, days_abroad, is_brief),
                    Append(st.intervals,
                           TravelInterval(st.last_exit[1].date, e.date, days_abroad,
                                          is_brief)))

\* the scan over events[1..n]
RECURSIVE Scan(_, _)
Scan(events, n) ==
  IF n = 0 THEN ScanState(Nothing, Nothing, <<>>, <<>>)
  ELSE ScanStep(Scan(events, n - 1), n - 1, events[n])

\* mutant: an exit pending at the end of the scan is let pass
unmatched_exit_issue_Never(st) == <<>>

unmatched_exit_issue(st) ==
  IF st.last_exit # Nothing
  THEN <<TravelIssue("high", "unmatched_exit", st.last_exit[1].date, None, None)>>
  ELSE <<>>

\* sorted(intervals, key=lambda x: (x.exit_date, x.entry_date))
IntervalKeyLE(a, b) ==
  a.exit_date < b.exit_date \/ (a.exit_date = b.exit_date /\ a.entry_date <= b.entry_date)

RECURSIVE InsertInterval(_, _)
InsertInterval(s, x) ==
  IF s = <<>> THEN <<x>>
  ELSE IF IntervalKeyLE(Head(s), x) THEN <<Head(s)>> \o InsertInterval(Tail(s), x)
  ELSE <<x>> \o s

RECURSIVE SortIntervals(_)
SortIntervals(s) ==
  IF s = <<>> THEN <<>>
  ELSE InsertInterval(SortIntervals(SubSeq(s, 1, Len(s) - 1)), s[Len(s)])

\* mutant: the active interval is never advanced
RECURSIVE TravelOverlapLoop_NoAdvance(_, _)
TravelOverlapLoop_NoAdvance(active, rest) ==
  IF rest = <<>> THEN <<>>
  ELSE LET curr == Head(rest) IN
       (IF ranges_overlap(active.exit_date, active.entry_date,
                          curr.exit_date, curr.entry_date)
        THEN <<[TravelIssue("high", "overlapping_intervals",
                            active.exit_date, active.entry_date, None)
                  EXCEPT !.message = [kind |-> "overlapping_intervals",
                                      from |-> active.exit_date,
                                      to |-> active.entry_date,
                                      days |-> None,
                                      curr_exit_date |-> curr.exit_date,
                                      curr_entry_date |-> curr.entry_date]]>>
        ELSE <<>>)
       \o TravelOverlapLoop_NoAdvance(active, Tail(rest))

\* the sweep over sorted_intervals[1:] with the interval that is active
RECURSIVE TravelOverlapLoop(_, _)
TravelOverlapLoop(active, rest) ==
  IF rest = <<>> THEN <<>>
  ELSE LET curr == Head(rest) IN
       (IF ranges_overlap(active.exit_date, active.entry_date,
                          curr.exit_date, curr.entry_date)
        THEN <<[TravelIssue("high", "overlapping_intervals",
                            active.exit_date, active.entry_date, None)
                  EXCEPT !.message = [kind |-> "overlapping_intervals",
                                      from |-> active.exit_date,
                                      to |-> active.entry_date,
                                      days |-> None,
                                      curr_exit_date |-> curr.exit_date,
                                      curr_entry_date |-> curr.entry_date]]>>
        ELSE <<>>)
       \o TravelOverlapLoop(IF curr.entry_date > active.entry_date THEN curr ELSE active,
                            Tail(rest))

travel_overlap_issues(intervals) ==
  IF Len(intervals) >= 2
  THEN LET sorted_intervals == SortIntervals(intervals)
       IN TravelOverlapLoop(Head(sorted_intervals), Tail(sorted_intervals))
  ELSE <<>>

\* for e in reversed(events): the last event of type entry, if any
RECURSIVE last_entry_of(_)
last_entry_of(events) ==
  IF events = <<>> THEN Nothing
  ELSE IF events[Len(events)].event_type = "entry" THEN Some(events[Len(events)])
  ELSE last_entry_of(SubSeq(events, 1, Len(events) - 1))

\* "not x" of an Optional[str]: None or the empty string
Falsy(x) == x = NoneStr \/ x = ""

\* mutant: the last entry is checked wherever the person is inferred to be
last_entry_issues_AnyEntry(inferred_in_us, last_entry) ==
  IF last_entry # Nothing
  THEN LET e == last_entry[1] IN
       (IF e.inspected = Some(FALSE)
        THEN <<TravelIssue("high", "not_inspected", e.date, None, None)>> ELSE <<>>)
       \o (IF e.inspected = Nothing
           THEN <<TravelIssue("high", "missing_inspected", e.date, None, None)>> ELSE <<>>)
       \o (IF Falsy(e.status_or_class)
           THEN <<TravelIssue("high", "missing_class", e.date, None, None)>> ELSE <<>>)
       \o (IF Falsy(e.i94_number)
           THEN <<TravelIssue("high", "missing_i94", e.date, None, None)>> ELSE <<>>)
  ELSE <<>>

last_entry_issues(inferred_in_us, last_entry) ==
  IF inferred_in_us = Some(TRUE) /\ last_entry # Nothing
  THEN LET e == last_entry[1] IN
       (IF e.inspected = Some(FALSE)
        THEN <<TravelIssue("high", "not_inspected", e.date, None, None)>> ELSE <<>>)
       \o (IF e.inspected = Nothing
           THEN <<TravelIssue("high", "missing_inspected", e.date, None, None)>> ELSE <<>>)
       \o (IF Falsy(e.status_or_class)
           THEN <<TravelIssue("high", "missing_class", e.date, None, None)>> ELSE <<>>)
       \o (IF Falsy(e.i94_number)
           THEN <<TravelIssue("high", "missing_i94", e.date, None, None)>> ELSE <<>>)
  ELSE <<>>

travel_last_day_of_month(y, m) ==
  IF m = 12 THEN date(y, 12, 31) ELSE date(y, m + 1, 1) - 1

travel_precision_range_start(d, precision) ==
  IF precision = "day" THEN d
  ELSE IF precision = "month" THEN date(year(d), month(d), 1)
  ELSE date(year(d), 1, 1)

\* mutant: a month-precision end is taken as the day given
travel_precision_range_end_MonthAsDay(d, precision) ==
  IF precision = "day" THEN d
  ELSE IF precision = "month" THEN d
  ELSE date(year(d), 12, 31)

travel_precision_range_end(d, precision) ==
  IF precision = "day" THEN d
  ELSE IF precision = "month" THEN travel_last_day_of_month(year(d), month(d))
  ELSE date(year(d), 12, 31)

TravelEmploymentRangeOf(e, ws, we) ==
  LET start == travel_precision_range_start(e.date_from, e.from_precision)
      effective_end == IF e.date_to # None THEN e.date_to ELSE we
      end_precision == IF e.date_to # None THEN e.to_precision ELSE "day"
      end == travel_precision_range_end(effective_end, end_precision)
  IN IF end < ws \/ start > we THEN <<>>
     ELSE <<[start |-> max(start, ws), end |-> min(end, we), entry |-> e]>>

RECURSIVE TravelEmploymentRangesLoop(_, _, _)
TravelEmploymentRangesLoop(es, ws, we) ==
  IF es = <<>> THEN <<>>
  ELSE TravelEmploymentRangeOf(Head(es), ws, we)
       \o TravelEmploymentRangesLoop(Tail(es), ws, we)

travel_build_employment_ranges(es, ws, we) ==
  SortRanges(TravelEmploymentRangesLoop(es, ws, we))

\* for emp_start, emp_end, emp in emp_ranges, for one travel interval t
RECURSIVE EmploymentOfTravelLoop(_, _)
EmploymentOfTravelLoop(t, emp_ranges) ==
  IF emp_ranges = <<>> THEN <<>>
  ELSE LET r == Head(emp_ranges) IN
       (IF /\ r.entry.employment_type \in {"employed", "self_employed"}
           /\ ranges_overlap(t.exit_date, t.entry_date, r.start, r.end)
        THEN <<[TravelIssue(IF t.days_abroad >= 90 THEN "high" ELSE "medium",
                            "travel_overlaps_employment",
                            t.exit_date, t.entry_date, None)
                  EXCEPT !.message = [kind |-> "travel_overlaps_employment",
                                      from |-> t.exit_date, to |-> t.entry_date,
                                      days |-> None,
                                      employment_type |-> r.entry.employment_type,
                                      emp_start |-> r.start, emp_end |-> r.end,
                                      employer |-> r.entry.employer]]>>
        ELSE <<>>)
       \o EmploymentOfTravelLoop(t, Tail(emp_ranges))

\* mutant: same-day trips are cross-referenced too
RECURSIVE TravelEmploymentLoop_BriefToo(_, _)
TravelEmploymentLoop_BriefToo(intervals, emp_ranges) ==
  IF intervals = <<>> THEN <<>>
  ELSE EmploymentOfTravelLoop(Head(intervals), emp_ranges)
       \o TravelEmploymentLoop_BriefToo(Tail(intervals), emp_ranges)

\* for t in intervals
RECURSIVE TravelEmploymentLoop(_, _)
TravelEmploymentLoop(intervals, emp_ranges) ==
  IF intervals = <<>> THEN <<>>
  ELSE (IF Head(intervals).is_brief THEN <<>>
        ELSE EmploymentOfTravelLoop(Head(intervals), emp_ranges))
       \o TravelEmploymentLoop(Tail(intervals), emp_ranges)

travel_employment_issues(intervals, emp, ws, we) ==
  IF emp # <<>>
  THEN TravelEmploymentLoop(intervals, travel_build_employment_ranges(emp, ws, we))
  ELSE <<>>

filter_and_sort(es, ws, we) == SortEvents(InWindow(es, ws, we))

\* mutant: any event in the window places the person inside
infer_in_us_AlwaysIn(last_event) == Some(TRUE)

infer_in_us(last_event) ==
  IF last_event.event_type = "entry" THEN Some(TRUE)
  ELSE IF last_event.event_type = "exit" THEN Some(FALSE)
  ELSE Nothing

\* the reads of last_entry.inspected and last_entry.i94_number, and those of
\* the employment builder, raise AttributeError on an object without them
analyze_travel_attribute_error(es, ws, we, emp) ==
  /\ es # <<>>
  /\ LET events == filter_and_sort(es, ws, we) IN
     /\ events # <<>>
     /\ \/ /\ infer_in_us(events[Len(events)]) = Some(TRUE)
           /\ last_entry_of(events) # Nothing
           /\ \/ ~HasAttr(last_entry_of(events)[1], "inspected")
              \/ ~HasAttr(last_entry_of(events)[1], "i94_number")
        \/ emp # <<>> /\ employment_attribute_error(emp)

analyze_travel(es, ws, we, emp) ==
  IF es = <<>> THEN TravelAnalysisResult(<<>>, <<>>, NoneStr, None, Nothing)
  ELSE LET events == filter_and_sort(es, ws, we) IN
       IF events = <<>> THEN TravelAnalysisResult(<<>>, <<>>, NoneStr, None, Nothing)
       ELSE LET last_event == events[Len(events)]
                inferred_in_us == infer_in_us(last_event)
                st == Scan(events, Len(events))
            IN TravelAnalysisResult(
                 st.intervals,
                 st.issues
                   \o unmatched_exit_issue(st)
                   \o travel_overlap_issues(st.intervals)
                   \o last_entry_issues(inferred_in_us, last_entry_of(events))
                   \o travel_employment_issues(st.intervals, emp, ws, we),
                 last_event.event_type, last_event.date, inferred_in_us)

(***************************************************************************)
(* issues.py                                                               *)
(***************************************************************************)
\* mutant: the given id replaces whatever ref_id the issue has
RECURSIVE tag_issues_Overwrite(_, _)
tag_issues_Overwrite(is, id) ==
  IF is = <<>> THEN <<>>
  ELSE <<[severity |-> Head(is).severity, category |-> Head(is).category,
          message |-> Head(is).message,
          suggested_question |-> Head(is).suggested_question, ref_id |-> id]>>
       \o tag_issues_Overwrite(Tail(is), id)

\* for i in issues: tagged.append(...)
RECURSIVE tag_issues(_, _)
tag_issues(is, id) ==
  IF is = <<>> THEN <<>>
  ELSE <<IF Head(is).ref_id = NoneStr
         THEN [severity |-> Head(is).severity, category |-> Head(is).category,
               message |-> Head(is).message,
               suggested_question |-> Head(is).suggested_question, ref_id |-> id]
         ELSE Head(is)>>
       \o tag_issues(Tail(is), id)

tag_issue(issue, id) ==
  IF issue.ref_id # NoneStr THEN issue
  ELSE [severity |-> issue.severity, category |-> issue.category,
        message |-> issue.message, suggested_question |-> issue.suggested_question,
        ref_id |-> id]

(***************************************************************************)
(* Inputs                                                                  *)
(***************************************************************************)
SeqsUpTo(S, n) == UNION {[1..k -> S] : k \in 0..n}

\* the same dates are handed over as an address entry and as an employment entry
AsAddress(d) ==
  AddressEntry(PostalAddress("1518 Asterwind Dr", "Apt", "2A"), d.date_from, d.from_precision, d.date_to, d.to_precision, "lived")

AsEmployment(d) ==
  EmploymentEntry("E", d.date_from, d.from_precision, d.date_to, d.to_precision,
                  "employed")

AsAddresses(ds) == [i \in 1..Len(ds) |-> AsAddress(ds[i])]

AsEmployments(ds) == [i \in 1..Len(ds) |-> AsEmployment(ds[i])]

\* end not before start (an open end is always well formed)
WellFormed(d) == d.date_to = None \/ d.date_to >= d.date_from

Dated(df, fp, dt, tp) ==
  [date_from |-> df, from_precision |-> fp, date_to |-> dt, to_precision |-> tp]

\* start dates and end dates of the coverage inputs, summer 2022
CoverageFrom ==
  { <<date(2022, 6, 1), "day">>, <<date(2022, 7, 1), "day">>,
    <<date(2022, 7, 2), "day">>, <<date(2022, 8, 2), "day">>,
    <<date(2022, 8, 1), "month">> }

CoverageTo ==
  { <<date(2022, 7, 2), "day">>, <<date(2022, 7, 30), "day">>,
    <<date(2022, 7, 31), "day">>, <<date(2022, 9, 30), "day">>,
    <<date(2022, 7, 1), "month">>, <<None, "day">> }

CoverageEntries ==
  { d \in { Dated(f[1], f[2], t[1], t[2]) : f \in CoverageFrom, t \in CoverageTo } :
      WellFormed(d) }

CoverageWindows ==
  { <<date(2022, 6, 1), date(2022, 9, 30)>>,
    <<date(2022, 7, 3), date(2022, 8, 1)>> }

NoResult ==
  /\ pc = "ready"
  /\ op = "none"
  /\ range_start = None
  /\ range_end = None
  /\ ranges = <<>>
  /\ issues = <<>>
  /\ joint = [first_shared_date |-> None, match_type |-> NoneStr,
              windows |-> <<>>, issues |-> <<>>]
  /\ travel = TravelAnalysisResult(<<>>, <<>>, NoneStr, None, Nothing)
  /\ tagged = <<>>

Init ==
  /\ \E w \in CoverageWindows : window_start = w[1] /\ window_end = w[2]
  /\ \E ds \in SeqsUpTo(CoverageEntries, MaxEntries) :
        /\ addresses = AsAddresses(ds)
        /\ employment = AsEmployments(ds)
  /\ date_arg = DateWithPrecision(window_start, "day")
  /\ petitioner = <<>>
  /\ beneficiary = <<>>
  /\ travel_entries = <<>>
  /\ ref_id = NoneStr
  /\ NoResult

(***************************************************************************)
(* Operations: each applies one routine to the inputs                      *)
(***************************************************************************)
Ran(name) == pc = "ready" /\ pc' = "done" /\ op' = name

\* a call ends with its result, or with the exception it raises
Ends(name, raises) ==
  pc = "ready" /\ pc' = (IF raises THEN "raised" ELSE "done") /\ op' = name

Inputs == <<window_start, window_end, date_arg, addresses, employment,
            petitioner, beneficiary, travel_entries, ref_id>>

PrecisionRangeStart ==
  /\ Ran("precision_range_start")
  /\ range_start' = precision_range_start(date_arg)
  /\ UNCHANGED <<Inputs, range_end, ranges, issues, joint, travel, tagged>>

PrecisionRangeEnd ==
  /\ Ran("precision_range_end")
  /\ range_end' = precision_range_end(date_arg)
  /\ UNCHANGED <<Inputs, range_start, ranges, issues, joint, travel, tagged>>

BuildAddressRanges ==
  /\ Ran("build_address_ranges")
  /\ ranges' = build_address_ranges(addresses, window_start, window_end)
  /\ UNCHANGED <<Inputs, range_start, range_end, issues, joint, travel, tagged>>

BuildEmploymentRanges ==
  /\ Ends("build_employment_ranges", employment_attribute_error(employment))
  /\ ranges' = IF employment_attribute_error(employment) THEN ranges
                ELSE build_employment_ranges(employment, window_start, window_end)
  /\ UNCHANGED <<Inputs, range_start, range_end, issues, joint, travel, tagged>>

DetectAddressGaps ==
  /\ Ran("detect_address_gaps")
  /\ issues' = detect_address_gaps(addresses, window_start, window_end)
  /\ UNCHANGED <<Inputs, range_start, range_end, ranges, joint, travel, tagged>>

DetectAddressOverlaps ==
  /\ Ran("detect_address_overlaps")
  /\ issues' = detect_address_overlaps(addresses, window_start, window_end)
  /\ UNCHANGED <<Inputs, range_start, range_end, ranges, joint, travel, tagged>>

DetectEmploymentGaps ==
  /\ Ends("detect_employment_gaps", employment_attribute_error(employment))
  /\ issues' = IF employment_attribute_error(employment) THEN issues
                ELSE detect_employment_gaps(employment, window_start, window_end)
  /\ UNCHANGED <<Inputs, range_start, range_end, ranges, joint, travel, tagged>>

DetectEmploymentOverlaps ==
  /\ Ends("detect_employment_overlaps", employment_attribute_error(employment))
  /\ issues' = IF employment_attribute_error(employment) THEN issues
                ELSE detect_employment_overlaps(employment, window_start, window_end)
  /\ UNCHANGED <<Inputs, range_start, range_end, ranges, joint, travel, tagged>>

Next ==
  \/ DetectAddressGaps
  \/ DetectAddressOverlaps
  \/ DetectEmploymentGaps
  \/ DetectEmploymentOverlaps

\* the coverage analyzer on lists of entries
Spec == Init /\ [][Next]_vars

(***************************************************************************)
(* What the claims speak of, stated on calendar days and not through the   *)
(* range arithmetic of the code.                                           *)
(***************************************************************************)
\* day o is one of the days the date d may stand for at precision p
Consistent(o, d, p) ==
  \/ p = "day" /\ o = d
  \/ p = "month" /\ year(o) = year(d) /\ month(o) = month(d)
  \/ p = "year" /\ year(o) = year(d)

\* day o lies in the precision range of entry e (an open end reaches window_end)
InPrecisionRange(o, e) ==
  /\ o >= e.date_from \/ Consistent(o, e.date_from, e.from_precision)
  /\ IF e.date_to = None THEN o <= window_end
     ELSE o <= e.date_to \/ Consistent(o, e.date_to, e.to_precision)

WindowDays == window_start..window_end

\* the days of the window that entry e covers: its clamped interval
ClampedDays(e) == {o \in WindowDays : InPrecisionRange(o, e)}

\* the clamped interval of each entry of the list, as a set of days
ClampedOf(es) == [i \in 1..Len(es) |-> ClampedDays(es[i])]

CoveredDays(es) == UNION {ClampedDays(es[i]) : i \in 1..Len(es)}

IssueDays(i) == {o \in WindowDays : i.message.from <= o /\ o <= i.message.to}

GapKinds == {"start_gap", "middle_gap", "end_gap"}

Done(name) == pc = "done" /\ op = name

Scenario3 ==
  /\ Done("detect_address_gaps")
  /\ window_start = date(2022, 6, 1)
  /\ window_end = date(2022, 9, 30)
  /\ Len(addresses) = 2
  /\ {addresses[1], addresses[2]} =
       { AsAddress(Dated(date(2022, 6, 1), "day", date(2022, 7, 31), "day")),
         AsAddress(Dated(date(2022, 8, 2), "day", date(2022, 9, 30), "day")) }

\* C3 as stated: in the scenario detect_address_gaps returns exactly one
\* issue, of severity high, covering 2022-08-01.
C3_Original ==
  Scenario3 =>
    /\ Len(issues) = 1
    /\ issues[1].severity = "high"
    /\ date(2022, 8, 1) \in IssueDays(issues[1])

\* C3 amended: in the scenario detect_address_gaps returns exactly one issue,
\* of severity medium (an interior gap of one day), covering 2022-08-01.
C3_ScenarioOneDayGap ==
  Scenario3 =>
    /\ Len(issues) = 1
    /\ issues[1].severity = "medium"
    /\ date(2022, 8, 1) \in IssueDays(issues[1])

C3_Witness == Scenario3 /\ Len(issues) = 1

OverlapSeverityOf(days) ==
  IF days = 1 THEN "low" ELSE IF days <= 29 THEN "medium" ELSE "high"

\* every reported overlap is the intersection of the clamped intervals of two
\* entries of the list, with the day count and the severity of that intersection
OverlapIssuesExact(es) ==
  \A k \in 1..Len(issues) :
    LET i == issues[k] IN
      /\ i.message.from <= i.message.to
      /\ i.message.days = i.message.to - i.message.from + 1
      /\ \E a, b \in 1..Len(es) :
            /\ a # b
            /\ IssueDays(i) = ClampedDays(es[a]) \cap ClampedDays(es[b])
      /\ i.severity = OverlapSeverityOf(i.message.days)

NextMonth(ym) == IF ym[2] = 12 THEN <<ym[1] + 1, 1>> ELSE <<ym[1], ym[2] + 1>>

\* the dates tried inside a month, and inside a year
SomeDaysOfMonth(ym) == {date(ym[1], ym[2], 1), date(ym[1], ym[2], DaysInMonth(ym[1], ym[2]))}

SomeDaysOfYear(y) == {date(y, 1, 1), date(y, 6, 15), date(y, 12, 31)}

\* <<end of the first entry, start of the second entry, precision>>
AdjacentJoints ==
  { <<a, b, "month">> :
      <<a, b>> \in UNION { SomeDaysOfMonth(ym) \X SomeDaysOfMonth(NextMonth(ym)) :
                             ym \in { t \in Years \X (1..12) : NextMonth(t)[1] \in Years } } }
  \cup
  { <<a, b, "year">> :
      <<a, b>> \in UNION { SomeDaysOfYear(y) \X SomeDaysOfYear(y + 1) :
                             y \in { t \in Years : t + 1 \in Years } } }

\* the first entry starts at its own end date or at the start of the
\* calendar; the second ends at its own start date or is open
AdjacentPairs ==
  UNION { { << Dated(f, fp, j[1], j[3]), Dated(j[2], j[3], t, j[3]) >> :
              <<f, fp>> \in {<<j[1], j[3]>>, <<date(2020, 1, 1), "day">>},
              t \in {j[2], None} } : j \in AdjacentJoints }

AdjacentWindows ==
  { <<date(2020, 1, 1), date(2019 + NumYears, 12, 31)>>,
    <<date(2020, 6, 15), date(2021, 6, 15)>> }

InitAdjacent ==
  /\ \E w \in AdjacentWindows : window_start = w[1] /\ window_end = w[2]
  /\ \E pair \in AdjacentPairs :
       \E ds \in {pair, <<pair[2], pair[1]>>} :
          /\ addresses = AsAddresses(ds)
          /\ employment = AsEmployments(ds)
  /\ date_arg = DateWithPrecision(window_start, "day")
  /\ petitioner = <<>>
  /\ beneficiary = <<>>
  /\ travel_entries = <<>>
  /\ ref_id = NoneStr
  /\ NoResult

NextAdjacent ==
  \/ BuildAddressRanges
  \/ BuildEmploymentRanges
  \/ DetectAddressGaps
  \/ DetectAddressOverlaps
  \/ DetectEmploymentGaps
  \/ DetectEmploymentOverlaps

\* the range builders and the detectors on precision-adjacent pairs
SpecAdjacent == InitAdjacent /\ [][NextAdjacent]_vars

\* the list holds a precision-adjacent pair: the earlier entry ends in a
\* period at month or year precision and the later one starts in the next
\* period at the same precision
IsAdjacentPair(es) ==
  /\ Len(es) = 2
  /\ \E a, b \in 1..2 :
       /\ a # b
       /\ es[a].date_to # None
       /\ es[a].to_precision = es[b].from_precision
       /\ \/ /\ es[a].to_precision = "month"
             /\ NextMonth(<<year(es[a].date_to), month(es[a].date_to)>>)
                  = <<year(es[b].date_from), month(es[b].date_from)>>
          \/ /\ es[a].to_precision = "year"
             /\ year(es[a].date_to) + 1 = year(es[b].date_from)

RangeDates ==
  { date(2020, 6, 15), date(2021, 1, 5), date(2021, 2, 10), date(2021, 6, 15),
    date(2021, 11, 20), date(2021, 12, 5), date(2022, 3, 1) }

RangeEntries ==
  { Dated(f, fp, t, tp) : f \in RangeDates, fp \in Precisions,
                          t \in RangeDates, tp \in Precisions }
  \cup { Dated(f, fp, None, "day") : f \in RangeDates, fp \in Precisions }

RangeWindows ==
  { <<date(2021, 2, 15), date(2021, 11, 15)>>,
    <<date(2021, 6, 15), date(2021, 6, 15)>>,
    <<date(2020, 1, 1), date(2019 + NumYears, 12, 31)>> }

InitRange ==
  /\ \E w \in RangeWindows : window_start = w[1] /\ window_end = w[2]
  /\ \E d \in RangeEntries :
        /\ addresses = AsAddresses(<<d>>)
        /\ employment = AsEmployments(<<d>>)
  /\ date_arg = DateWithPrecision(window_start, "day")
  /\ petitioner = <<>>
  /\ beneficiary = <<>>
  /\ travel_entries = <<>>
  /\ ref_id = NoneStr
  /\ NoResult

NextRange ==
  \/ BuildAddressRanges
  \/ BuildEmploymentRanges

\* the range builders on one entry
SpecRange == InitRange /\ [][NextRange]_vars

\* every day the end of e may stand for is before window_start; the days a
\* (date, precision) stands for are consecutive and hold the date itself
EndsBeforeWindow(e) ==
  /\ e.date_to # None
  /\ e.date_to < window_start
  /\ ~Consistent(window_start, e.date_to, e.to_precision)

\* every day the start of e may stand for is after window_end
StartsAfterWindow(e) ==
  /\ e.date_from > window_end
  /\ ~Consistent(window_end, e.date_from, e.from_precision)

ClampedAsClaimed(e) ==
  /\ (ranges = <<>>) <=> (EndsBeforeWindow(e) \/ StartsAfterWindow(e))
  /\ Len(ranges) <= 1
  /\ (ranges # <<>> /\ WellFormed(e)) =>
        /\ window_start <= ranges[1].start
        /\ ranges[1].start <= ranges[1].end
        /\ ranges[1].end <= window_end
        /\ {o \in WindowDays : ranges[1].start <= o /\ o <= ranges[1].end}
             = ClampedDays(e)

\* C7: interval clamping. An entry is dropped exactly when its precision
\* range lies entirely before window_start or entirely after window_end; a
\* kept interval of an entry whose end is not before its start satisfies
\* window_start <= start <= end <= window_end and is the intersection of the
\* entry's precision range with the window.
C7_IntervalClamping ==
  /\ Done("build_address_ranges") => ClampedAsClaimed(addresses[1])
  /\ Done("build_employment_ranges") => ClampedAsClaimed(employment[1])

\* an entry that crosses both ends of the window is kept and cut to the window
C7_Witness ==
  /\ Done("build_address_ranges")
  /\ addresses[1].date_to # None
  /\ addresses[1].date_from < window_start
  /\ addresses[1].date_to > window_end
  /\ window_start < window_end
  /\ ranges # <<>>
  /\ ranges[1].start = window_start
  /\ ranges[1].end = window_end

(***************************************************************************)
(* The precision helpers on the first, the fifteenth and the last day of   *)
(* every month, and the address range builder on an open-ended entry       *)
(* starting there.                                                         *)
(***************************************************************************)
PrecisionDates ==
  { date(y, m, d) : y \in Years, m \in 1..12, d \in {1, 15, 28} }
  \cup { date(y, m, DaysInMonth(y, m)) : y \in Years, m \in 1..12 }

PrecisionWindows ==
  { <<date(2020, 6, 15), date(2021, 6, 15)>>,
    <<date(2020, 1, 1), date(2019 + NumYears, 12, 31)>> }

InitPrecision ==
  /\ \E w \in PrecisionWindows : window_start = w[1] /\ window_end = w[2]
  /\ \E d \in PrecisionDates, p \in Precisions, tp \in Precisions :
        /\ date_arg = DateWithPrecision(d, p)
        /\ addresses = AsAddresses(<<Dated(d, p, None, tp)>>)
        /\ employment = AsEmployments(<<Dated(d, p, None, tp)>>)
  /\ petitioner = <<>>
  /\ beneficiary = <<>>
  /\ travel_entries = <<>>
  /\ ref_id = NoneStr
  /\ NoResult

NextPrecision ==
  \/ PrecisionRangeStart
  \/ PrecisionRangeEnd
  \/ BuildAddressRanges

\* the precision helpers, and the builder on an open-ended entry
SpecPrecision == InitPrecision /\ [][NextPrecision]_vars

\* C8: precision expansion. range_start is the date itself at day
\* precision, the first of its month at month precision, January 1 of its
\* year at year precision; range_end is the date itself, the last calendar
\* day of its month (29 for February of a leap year, 28 otherwise) or
\* December 31; an entry with a null end date ends at window_end whatever
\* its stored end precision.
C8_PrecisionExpansion ==
  LET d == date_arg.value
      p == date_arg.precision
  IN
  /\ Done("precision_range_start") =>
        /\ p = "day" => range_start = d
        /\ p = "month" => Fields(range_start) = <<year(d), month(d), 1>>
        /\ p = "year" => Fields(range_start) = <<year(d), 1, 1>>
  /\ Done("precision_range_end") =>
        /\ p = "day" => range_end = d
        /\ p = "month" =>
              /\ year(range_end) = year(d) /\ month(range_end) = month(d)
              /\ month(range_end + 1) # month(d)
              /\ day(range_end) \in 28..31
              /\ month(d) = 2 =>
                   day(range_end) = (IF IsLeap(year(d)) THEN 29 ELSE 28)
        /\ p = "year" => Fields(range_end) = <<year(d), 12, 31>>
  /\ (Done("build_address_ranges") /\ addresses[1].date_to = None) =>
        /\ (ranges = <<>>) <=> StartsAfterWindow(addresses[1])
        /\ ranges # <<>> => ranges[1].end = window_end

\* the end of February 2020 at month precision is February 29
C8_Witness ==
  /\ Done("precision_range_end")
  /\ date_arg.precision = "month"
  /\ year(date_arg.value) = 2020
  /\ month(date_arg.value) = 2
  /\ Fields(range_end) = <<2020, 2, 29>>

(***************************************************************************)
(* The joint residence matcher on the address histories of two persons.    *)
(***************************************************************************)
Home == PostalAddress("1518 Asterwind Dr", "Apt", "2A")

\* the same home as typed by the other spouse
HomeTyped == PostalAddress("1518 asterwind dr.", "Apt", "2a")

HomeOtherUnit == PostalAddress("1518 Asterwind Dr", "Unit", "2A")

Elsewhere == PostalAddress("999 Ninth St", "Apt", "2A")

Lived(addr, d) ==
  AddressEntry(addr, d.date_from, d.from_precision, d.date_to, d.to_precision, "lived")

PetitionerLived ==
  { Lived(Home, Dated(date(2022, 6, 1), "day", date(2022, 9, 30), "day")),
    Lived(HomeOtherUnit, Dated(date(2022, 6, 1), "day", date(2022, 6, 30), "day")),
    Lived(HomeOtherUnit, Dated(date(2022, 7, 1), "month", None, "day")) }

BeneficiaryLived ==
  { Lived(Home, Dated(date(2022, 7, 1), "day", date(2022, 12, 31), "day")),
    Lived(HomeOtherUnit, Dated(date(2022, 7, 1), "day", date(2022, 12, 31), "day")),
    Lived(HomeTyped, Dated(date(2022, 6, 1), "month", date(2022, 8, 15), "day")),
    Lived(Elsewhere, Dated(date(2022, 6, 1), "day", None, "day")) }

JointWindows ==
  { <<date(2022, 1, 1), date(2022, 12, 31)>>,
    <<date(2022, 8, 1), date(2022, 10, 31)>> }

InitJoint ==
  /\ \E w \in JointWindows : window_start = w[1] /\ window_end = w[2]
  /\ petitioner \in SeqsUpTo(PetitionerLived, MaxLived)
  /\ beneficiary \in SeqsUpTo(BeneficiaryLived, MaxLived)
  /\ date_arg = DateWithPrecision(window_start, "day")
  /\ addresses = <<>>
  /\ employment = <<>>
  /\ travel_entries = <<>>
  /\ ref_id = NoneStr
  /\ NoResult

DetectJointResidencyStart ==
  /\ Ran("detect_joint_residency_start")
  /\ joint' = detect_joint_residency_start(petitioner, beneficiary,
                                           window_start, window_end)
  /\ UNCHANGED <<Inputs, range_start, range_end, ranges, issues, travel, tagged>>

AnalyzeTravel ==
  /\ Ends("analyze_travel",
          analyze_travel_attribute_error(travel_entries, window_start, window_end,
                                         employment))
  /\ travel' = IF analyze_travel_attribute_error(travel_entries, window_start,
                                                 window_end, employment)
                THEN travel
                ELSE analyze_travel(travel_entries, window_start, window_end, employment)
  /\ UNCHANGED <<Inputs, range_start, range_end, ranges, issues, joint, tagged>>

NextJoint == DetectJointResidencyStart

SpecJoint == InitJoint /\ [][NextJoint]_vars

\* day o of the window lies in the precision range of both entries
SharedDay(o, a, b) == InPrecisionRange(o, a) /\ InPrecisionRange(o, b)

StrictKeysEqual(a, b) ==
  address_keys(a.address).strict_key = address_keys(b.address).strict_key

LooseKeysEqual(a, b) ==
  address_keys(a.address).loose_key = address_keys(b.address).loose_key

\* positions of the returned windows that pair entry a with entry b
WindowsOf(a, b) ==
  { k \in 1..Len(joint.windows) :
      /\ joint.windows[k].petitioner_entry = a
      /\ joint.windows[k].beneficiary_entry = b }

\* positions in the two histories that hold entry a and entry b
PairsOf(a, b) ==
  { ij \in (1..Len(petitioner)) \X (1..Len(beneficiary)) :
      petitioner[ij[1]] = a /\ beneficiary[ij[2]] = b }

\* C9: joint residence classification. Every pair of a petitioner interval
\* and a beneficiary interval contributes exactly one window when the
\* intervals share a day and the strict or the loose keys are equal, and none
\* otherwise; the window spans exactly the shared days, typed strict when the
\* strict keys are equal and loose when only the loose keys are equal.
C9_JointClassification ==
  Done("detect_joint_residency_start") =>
    /\ \A k \in 1..Len(joint.windows) :
          \E i \in 1..Len(petitioner), j \in 1..Len(beneficiary) :
             /\ joint.windows[k].petitioner_entry = petitioner[i]
             /\ joint.windows[k].beneficiary_entry = beneficiary[j]
    /\ \A i \in 1..Len(petitioner), j \in 1..Len(beneficiary) :
          LET a == petitioner[i]
              b == beneficiary[j]
          IN IF /\ StrictKeysEqual(a, b) \/ LooseKeysEqual(a, b)
                /\ \E o \in WindowDays : SharedDay(o, a, b)
             THEN /\ Cardinality(WindowsOf(a, b)) = Cardinality(PairsOf(a, b))
                  /\ \A k \in WindowsOf(a, b) :
                        LET w == joint.windows[k] IN
                        /\ \A o \in WindowDays :
                              (w.start <= o /\ o <= w.end) <=> SharedDay(o, a, b)
                        /\ w.start \in WindowDays /\ w.end \in WindowDays
                        /\ w.match_type = IF StrictKeysEqual(a, b) THEN "strict" ELSE "loose"
             ELSE WindowsOf(a, b) = {}

\* a strict window between two spellings of one address, a loose window, and
\* a pair that contributes no window
C9_Witness ==
  /\ Done("detect_joint_residency_start")
  /\ \E k \in 1..Len(joint.windows) :
        /\ joint.windows[k].match_type = "strict"
        /\ joint.windows[k].petitioner_entry.address
             # joint.windows[k].beneficiary_entry.address
  /\ \E k \in 1..Len(joint.windows) : joint.windows[k].match_type = "loose"
  /\ Len(joint.windows) < Len(petitioner) * Len(beneficiary)

ScenarioSharedHome ==
  /\ window_start = date(2022, 1, 1)
  /\ window_end = date(2022, 12, 31)
  /\ petitioner = <<Lived(Home, Dated(date(2022, 6, 1), "day", date(2022, 9, 30), "day"))>>
  /\ beneficiary = <<Lived(Home, Dated(date(2022, 7, 1), "day", date(2022, 12, 31), "day"))>>

\* C10: joint residence selection. When at least one window exists the
\* returned windows are sorted by (start, strict before loose, end),
\* first_shared_date is the least start of any window, and match_type is
\* strict when some strict window starts on that date and loose otherwise;
\* entries 2022-06-01..09-30 and 2022-07-01..12-31 at one address in the
\* window of the year 2022 give 2022-07-01, strict.
C10_JointSelection ==
  /\ (Done("detect_joint_residency_start") /\ joint.windows # <<>>) =>
       LET ws == joint.windows IN
       /\ \A k \in 1..Len(ws), l \in 1..Len(ws) :
             k < l =>
               \/ ws[k].start < ws[l].start
               \/ /\ ws[k].start = ws[l].start
                  /\ \/ ws[k].match_type = "strict" /\ ws[l].match_type = "loose"
                     \/ /\ ws[k].match_type = ws[l].match_type
                        /\ ws[k].end <= ws[l].end
       /\ \A k \in 1..Len(ws) : joint.first_shared_date <= ws[k].start
       /\ \E k \in 1..Len(ws) : joint.first_shared_date = ws[k].start
       /\ joint.match_type =
            IF \E k \in 1..Len(ws) : /\ ws[k].match_type = "strict"
                                     /\ ws[k].start = joint.first_shared_date
            THEN "strict" ELSE "loose"
  /\ (Done("detect_joint_residency_start") /\ ScenarioSharedHome) =>
       /\ joint.first_shared_date = date(2022, 7, 1)
       /\ joint.match_type = "strict"

\* a loose window found before a strict one that starts on the same earliest
\* date and ends on the same date
C10_Witness ==
  /\ Done("detect_joint_residency_start")
  /\ Len(petitioner) = 1
  /\ Len(beneficiary) = 2
  /\ LooseKeysEqual(petitioner[1], beneficiary[1])
  /\ ~StrictKeysEqual(petitioner[1], beneficiary[1])
  /\ \E k \in 1..Len(joint.windows), l \in 1..Len(joint.windows) :
        /\ joint.windows[k].match_type = "strict"
        /\ joint.windows[l].match_type = "loose"
        /\ joint.windows[k].start = joint.first_shared_date
        /\ joint.windows[l].start = joint.first_shared_date
        /\ joint.windows[k].end = joint.windows[l].end
  /\ joint.match_type = "strict"

\* entries a and b are a shared residence: a common day and equal keys
SharesResidence(a, b) ==
  /\ StrictKeysEqual(a, b) \/ LooseKeysEqual(a, b)
  /\ \E o \in WindowDays : SharedDay(o, a, b)

SomeSharedResidence ==
  \E i \in 1..Len(petitioner), j \in 1..Len(beneficiary) :
     SharesResidence(petitioner[i], beneficiary[j])

SomeStrictResidence ==
  \E i \in 1..Len(petitioner), j \in 1..Len(beneficiary) :
     /\ SharesResidence(petitioner[i], beneficiary[j])
     /\ StrictKeysEqual(petitioner[i], beneficiary[j])

OneMediumIssue(is) == Len(is) = 1 /\ is[1].severity = "medium"

\* C11: joint residence issue policy. With no shared window the result has
\* no first_shared_date, no match_type, no windows and exactly one issue,
\* medium; with shared windows none of which is strict it has exactly one
\* issue, medium; with a strict window it has no issue.
C11_JointIssuePolicy ==
  Done("detect_joint_residency_start") =>
    /\ (joint.windows = <<>>) <=> ~SomeSharedResidence
    /\ ~SomeSharedResidence =>
          /\ joint.first_shared_date = None
          /\ joint.match_type = NoneStr
          /\ joint.windows = <<>>
          /\ OneMediumIssue(joint.issues)
          /\ joint.issues[1].message.kind = "no_shared_residence"
    /\ (SomeSharedResidence /\ ~SomeStrictResidence) =>
          /\ OneMediumIssue(joint.issues)
          /\ joint.issues[1].message.kind = "loose_only"
          /\ \A k \in 1..Len(joint.windows) : joint.windows[k].match_type = "loose"
    /\ SomeStrictResidence =>
          /\ joint.issues = <<>>
          /\ \E k \in 1..Len(joint.windows) : joint.windows[k].match_type = "strict"

\* the earliest window is loose and a strict window starts later: no issue
C11_Witness ==
  /\ Done("detect_joint_residency_start")
  /\ Len(joint.windows) >= 2
  /\ joint.match_type = "loose"
  /\ SomeStrictResidence
  /\ joint.issues = <<>>

(***************************************************************************)
(* The joint residence matcher on histories that hold entries of every     *)
(* address_type; glue.py keeps the address_type of the intake.             *)
(***************************************************************************)
AddressTypes == {"lived", "temporary", "mailing"}

Resided(addr, d, address_type) ==
  AddressEntry(addr, d.date_from, d.from_precision, d.date_to, d.to_precision,
               address_type)

PetitionerAddresses ==
  { Resided(Home, Dated(date(2022, 6, 1), "day", date(2022, 9, 30), "day"), t) :
      t \in {"lived", "temporary"} }

BeneficiaryAddresses ==
  { Resided(Home, Dated(date(2022, 7, 1), "day", date(2022, 12, 31), "day"), t) :
      t \in AddressTypes }

InitTypes ==
  /\ window_start = date(2022, 1, 1)
  /\ window_end = date(2022, 12, 31)
  /\ petitioner \in SeqsUpTo(PetitionerAddresses, MaxLived)
  /\ beneficiary \in SeqsUpTo(BeneficiaryAddresses, MaxLived)
  /\ date_arg = DateWithPrecision(window_start, "day")
  /\ addresses = <<>>
  /\ employment = <<>>
  /\ travel_entries = <<>>
  /\ ref_id = NoneStr
  /\ NoResult

NextTypes == DetectJointResidencyStart

SpecTypes == InitTypes /\ [][NextTypes]_vars

IsLived(e) == e.address_type = "lived"

SomeLivedSharedResidence ==
  \E i \in 1..Len(petitioner), j \in 1..Len(beneficiary) :
     /\ IsLived(petitioner[i])
     /\ IsLived(beneficiary[j])
     /\ SharesResidence(petitioner[i], beneficiary[j])

\* C12: the matcher builds intervals only from entries of address_type lived.
\* An entry of type temporary or mailing is in no shared window, and when no
\* two lived entries share a residence there is no first_shared_date and the
\* no-shared-residence issue is returned.
C12_LivedOnly ==
  Done("detect_joint_residency_start") =>
    /\ \A k \in 1..Len(joint.windows) :
          /\ IsLived(joint.windows[k].petitioner_entry)
          /\ IsLived(joint.windows[k].beneficiary_entry)
    /\ ~SomeLivedSharedResidence =>
          /\ joint.first_shared_date = None
          /\ \E k \in 1..Len(joint.issues) :
                joint.issues[k].message.kind = "no_shared_residence"

(***************************************************************************)
(* The travel analyzer on streams of exits and entries.  The window is the  *)
(* year 2020; 2020-03-30 is the 90th and 2020-06-28 the 180th day of it.   *)
(***************************************************************************)
\* an entry record with every field of the last-entry checks filled in
CompleteEntry(d) == TravelEntry("entry", d, "B2", Some(TRUE), "I94")

ExitEvent(d) == TravelEntry("exit", d, NoneStr, Nothing, NoneStr)

TravelDates ==
  { date(2019, 12, 31), date(2020, 1, 1), date(2020, 1, 2),
    date(2020, 3, 30), date(2020, 6, 28) }

TravelEvents == {ExitEvent(d) : d \in TravelDates} \cup {CompleteEntry(d) : d \in TravelDates}

InitTravel ==
  /\ window_start = date(2020, 1, 1)
  /\ window_end = date(2020, 12, 31)
  /\ travel_entries \in SeqsUpTo(TravelEvents, MaxEvents)
  /\ date_arg = DateWithPrecision(window_start, "day")
  /\ addresses = <<>>
  /\ employment = <<>>
  /\ petitioner = <<>>
  /\ beneficiary = <<>>
  /\ ref_id = NoneStr
  /\ NoResult

NextTravel == AnalyzeTravel

SpecTravel == InitTravel /\ [][NextTravel]_vars

\* the window-filtered sorted stream that the scan walks
Stream == filter_and_sort(travel_entries, window_start, window_end)

IsExit(k) == Stream[k].event_type = "exit"

IsEntry(k) == Stream[k].event_type = "entry"

\* positions of the stream where an exit is followed at once by an entry
PairedAt == {k \in 2..Len(Stream) : IsEntry(k) /\ IsExit(k - 1)}

\* positions of the result's issues of one kind
IssuesOfKind(kind) ==
  {i \in 1..Len(travel.issues) : travel.issues[i].message.kind = kind}

AllOfKind(kind, severity) ==
  \A i \in IssuesOfKind(kind) :
     travel.issues[i].severity = severity /\ travel.issues[i].category = "travel"

\* every closed interval joins an entry of the stream with the exit just before it
IntervalsArePairs ==
  /\ Len(travel.intervals) = Cardinality(PairedAt)
  /\ \A i \in 1..Len(travel.intervals) :
        \E k \in PairedAt :
           /\ travel.intervals[i].entry_date = Stream[k].date
           /\ travel.intervals[i].exit_date = Stream[k - 1].date

CountOf(seq, x) == Cardinality({i \in 1..Len(seq) : seq[i] = x})

SpanAt(k) == Stream[k].date - Stream[k - 1].date + 1

\* an issue of the given kind reports the pair closed at position k
ReportsPair(i, k) ==
  /\ travel.issues[i].message.from = Stream[k - 1].date
  /\ travel.issues[i].message.to = Stream[k].date
  /\ travel.issues[i].message.days = SpanAt(k)

C17_UnmatchedExit ==
  Done("analyze_travel") =>
    /\ Cardinality(IssuesOfKind("unmatched_exit")) =
         IF Stream # <<>> /\ IsExit(Len(Stream)) THEN 1 ELSE 0
    /\ AllOfKind("unmatched_exit", "high")
    /\ \A i \in IssuesOfKind("unmatched_exit") :
          travel.issues[i].message.from = Stream[Len(Stream)].date

\* a closed trip and then an exit that nothing follows
C17_Witness ==
  /\ Done("analyze_travel")
  /\ Len(Stream) = 3
  /\ IsExit(1) /\ IsEntry(2) /\ IsExit(3)
  /\ Stream[1].date < Stream[3].date
  /\ Cardinality(IssuesOfKind("unmatched_exit")) = 1
  /\ travel.issues[CHOOSE i \in IssuesOfKind("unmatched_exit") : TRUE].message.from
       = Stream[3].date

\* the events of the input dated inside the window, in input order
InWindowPositions ==
  {i \in 1..Len(travel_entries) :
     window_start <= travel_entries[i].date /\ travel_entries[i].date <= window_end}

LastIsEntry ==
  \E i \in InWindowPositions :
     /\ travel_entries[i].event_type = "entry"
     /\ \A j \in InWindowPositions : travel_entries[j].date <= travel_entries[i].date

LastIsExit == InWindowPositions # {} /\ ~LastIsEntry

LegalFields ==
  { <<"B2", Some(TRUE), "I94">>,
    <<"B2", Some(FALSE), "I94">>,
    <<"B2", Nothing, "I94">>,
    <<NoneStr, Some(TRUE), "I94">>,
    <<"", Some(TRUE), "I94">>,
    <<"B2", Some(TRUE), NoneStr>>,
    <<"B2", Some(TRUE), "">>,
    <<NoneStr, Nothing, NoneStr>>,
    <<"", Some(FALSE), "">> }

LastEntryEvents ==
  { TravelEntry("entry", date(2020, 6, 1), f[1], f[2], f[3]) : f \in LegalFields }
  \cup { TravelEntry("entry", date(2020, 1, 10), NoneStr, Nothing, NoneStr),
         ExitEvent(date(2020, 3, 30)),
         ExitEvent(date(2020, 6, 28)) }

InitLastEntry ==
  /\ window_start = date(2020, 1, 1)
  /\ window_end = date(2020, 12, 31)
  /\ travel_entries \in SeqsUpTo(LastEntryEvents, MaxEvents)
  /\ date_arg = DateWithPrecision(window_start, "day")
  /\ addresses = <<>>
  /\ employment = <<>>
  /\ petitioner = <<>>
  /\ beneficiary = <<>>
  /\ ref_id = NoneStr
  /\ NoResult

NextLastEntry == AnalyzeTravel

SpecLastEntry == InitLastEntry /\ [][NextLastEntry]_vars

CompletenessKinds == {"not_inspected", "missing_inspected", "missing_class", "missing_i94"}

\* exactly one issue of the kind when the condition holds, and none otherwise
OneIff(kind, condition) ==
  Cardinality(IssuesOfKind(kind)) = IF condition THEN 1 ELSE 0

MaxTrips == 2

Trip(exit_date, entry_date) == <<ExitEvent(exit_date), CompleteEntry(entry_date)>>

Trips ==
  { Trip(date(2020, 2, 2), date(2020, 2, 2)),
    Trip(date(2020, 2, 2), date(2020, 4, 30)),
    Trip(date(2020, 2, 2), date(2020, 5, 1)),
    Trip(date(2020, 6, 1), date(2020, 6, 10)) }

RECURSIVE Flatten(_)
Flatten(ts) == IF ts = <<>> THEN <<>> ELSE Head(ts) \o Flatten(Tail(ts))

\* a year of employment, self-employment known to the month from May on, a
\* year without work, and a job held from the day after 2020-05-01 to the day
\* before 2020-06-01
Jobs ==
  { EmploymentEntry("ACME", date(2020, 1, 1), "day", date(2020, 12, 31), "day",
                    "employed"),
    EmploymentEntry("Self", date(2020, 5, 15), "month", None, "day", "self_employed"),
    EmploymentEntry("None", date(2020, 1, 1), "day", date(2020, 12, 31), "day",
                    "unemployed"),
    EmploymentEntry("May", date(2020, 5, 2), "day", date(2020, 5, 31), "day",
                    "employed") }

TravelEmploymentWindows ==
  { <<date(2020, 1, 1), date(2020, 12, 31)>>,
    <<date(2020, 2, 2), date(2020, 6, 5)>> }

InitTravelEmployment ==
  /\ \E w \in TravelEmploymentWindows : window_start = w[1] /\ window_end = w[2]
  /\ \E ts \in SeqsUpTo(Trips, MaxTrips) : travel_entries = Flatten(ts)
  /\ employment \in SeqsUpTo(Jobs, MaxEntries)
  /\ date_arg = DateWithPrecision(window_start, "day")
  /\ addresses = <<>>
  /\ petitioner = <<>>
  /\ beneficiary = <<>>
  /\ ref_id = NoneStr
  /\ NoResult

NextTravelEmployment == AnalyzeTravel

SpecTravelEmployment == InitTravelEmployment /\ [][NextTravelEmployment]_vars

Working(e) == e.employment_type \in {"employed", "self_employed"}

\* some day of the set S, the days of the window that an employment entry
\* covers, lies within the trip
Intersects(t, S) == \E o \in S : t.exit_date <= o /\ o <= t.entry_date

\* (interval, employment entry) pairs that the cross-reference is to report,
\* c being the clamped intervals of the employment entries
CrossPairsOf(c) ==
  { p \in (1..Len(travel.intervals)) \X (1..Len(employment)) :
      /\ ~travel.intervals[p[1]].is_brief
      /\ Working(employment[p[2]])
      /\ Intersects(travel.intervals[p[1]], c[p[2]]) }

CrossPairs == CrossPairsOf(ClampedOf(employment))

\* issue k reports interval i against employment entry j
ReportsCross(c, k, i, j) ==
  LET t == travel.intervals[i]
      e == employment[j]
      m == travel.issues[k].message
  IN /\ m.from = t.exit_date /\ m.to = t.entry_date
     /\ m.employer = e.employer /\ m.employment_type = e.employment_type
     /\ \A o \in c[j] : m.emp_start <= o /\ o <= m.emp_end
     /\ m.emp_start \in c[j] /\ m.emp_end \in c[j]
     /\ travel.issues[k].category = "travel"
     /\ travel.issues[k].severity =
          IF t.entry_date - t.exit_date + 1 >= 90 THEN "high" ELSE "medium"

MaxIntervals == 3

SweepDates == { date(2020, 3, 1), date(2020, 3, 2), date(2020, 3, 3), date(2020, 3, 4) }

ClosedInterval(exit_date, entry_date) ==
  TravelInterval(exit_date, entry_date, days_inclusive(exit_date, entry_date),
                 days_inclusive(exit_date, entry_date) = 1)

ClosedIntervals ==
  { ClosedInterval(p[1], p[2]) : p \in {q \in SweepDates \X SweepDates : q[1] <= q[2]} }

InitSweep ==
  /\ window_start = date(2020, 1, 1)
  /\ window_end = date(2020, 12, 31)
  /\ travel_entries = <<>>
  /\ date_arg = DateWithPrecision(window_start, "day")
  /\ addresses = <<>>
  /\ employment = <<>>
  /\ petitioner = <<>>
  /\ beneficiary = <<>>
  /\ pc = "ready"
  /\ op = "none"
  /\ range_start = None
  /\ range_end = None
  /\ ranges = <<>>
  /\ issues = <<>>
  /\ joint = [first_shared_date |-> None, match_type |-> NoneStr,
              windows |-> <<>>, issues |-> <<>>]
  /\ ref_id = NoneStr
  /\ tagged = <<>>
  /\ \E is \in SeqsUpTo(ClosedIntervals, MaxIntervals) :
        travel = TravelAnalysisResult(is, <<>>, NoneStr, None, Nothing)

\* lines 279-298: issues.append(...) for the overlaps the sweep finds
TravelOverlapSweep ==
  /\ Ran("travel_overlap_sweep")
  /\ travel' = [travel EXCEPT !.issues = @ \o travel_overlap_issues(travel.intervals)]
  /\ UNCHANGED <<Inputs, range_start, range_end, ranges, issues, joint, tagged>>

NextSweep == TravelOverlapSweep

SpecSweep == InitSweep /\ [][NextSweep]_vars

\* two intervals share a day
IntervalsIntersect(a, b) == a.exit_date <= b.entry_date /\ b.exit_date <= a.entry_date

\* C22: travel overlap sweep.  Whenever two closed intervals of the list have
\* intersecting [exit_date, entry_date] ranges, the sweep emits an
\* overlapping-travel issue; every such issue is high and names two
\* intervals of the list that intersect.
C22_TravelOverlapSweep ==
  Done("travel_overlap_sweep") =>
    LET n == Len(travel.intervals)
        found == IssuesOfKind("overlapping_intervals")
    IN /\ (\E i \in 1..n : \E j \in (i + 1)..n :
              IntervalsIntersect(travel.intervals[i], travel.intervals[j]))
            => found # {}
       /\ AllOfKind("overlapping_intervals", "high")
       /\ \A k \in found :
             \E i \in 1..n : \E j \in (1..n) \ {i} :
                /\ travel.issues[k].message.from = travel.intervals[i].exit_date
                /\ travel.issues[k].message.to = travel.intervals[i].entry_date
                /\ travel.issues[k].message.curr_exit_date = travel.intervals[j].exit_date
                /\ travel.issues[k].message.curr_entry_date = travel.intervals[j].entry_date
                /\ IntervalsIntersect(travel.intervals[i], travel.intervals[j])

\* the first interval in sort order meets neither of the others, which meet
\* each other: the overlap is found once the active interval has advanced
C22_Witness ==
  /\ Done("travel_overlap_sweep")
  /\ Len(travel.intervals) = 3
  /\ travel.intervals[1] = ClosedInterval(date(2020, 3, 3), date(2020, 3, 4))
  /\ travel.intervals[2] = ClosedInterval(date(2020, 3, 1), date(2020, 3, 1))
  /\ travel.intervals[3] = ClosedInterval(date(2020, 3, 2), date(2020, 3, 3))
  /\ Len(travel.issues) = 1
  /\ travel.issues[1].severity = "high"
  /\ travel.issues[1].message.kind = "overlapping_intervals"

(***************************************************************************)
(* Every analyzer on well-formed input whose employment and travel entries *)
(* are objects of the classes of models.py, built from the keyword         *)
(* arguments that the tests and glue.py pass.                              *)
(***************************************************************************)
TotalityDated ==
  { Dated(date(2020, 1, 1), "day", date(2020, 12, 31), "day"),
    Dated(date(2020, 3, 1), "month", None, "day") }

TotalityEvents ==
  { BaseModel(TravelEntryFields, ExitEvent(date(2020, 2, 1))),
    BaseModel(TravelEntryFields, CompleteEntry(date(2020, 5, 1))),
    BaseModel(TravelEntryFields, ExitEvent(date(2020, 6, 1))) }

InitTotality ==
  /\ window_start = date(2020, 1, 1)
  /\ window_end = date(2020, 12, 31)
  /\ \E ds \in SeqsUpTo(TotalityDated, MaxEntries) :
        /\ addresses = AsAddresses(ds)
        /\ employment = [i \in 1..Len(ds) |->
                           BaseModel(EmploymentEntryFields, AsEmployment(ds[i]))]
  /\ petitioner = addresses
  /\ beneficiary = addresses
  /\ travel_entries \in SeqsUpTo(TotalityEvents, MaxEvents)
  /\ date_arg = DateWithPrecision(window_start, "day")
  /\ ref_id = NoneStr
  /\ NoResult

NextTotality ==
  \/ DetectAddressGaps
  \/ DetectAddressOverlaps
  \/ DetectEmploymentGaps
  \/ DetectEmploymentOverlaps
  \/ DetectJointResidencyStart
  \/ AnalyzeTravel

SpecTotality == InitTotality /\ [][NextTotality]_vars

Severities == {"high", "medium", "low"}

Categories == {"address_history", "employment", "travel", "joint_residency"}

IsIssue(i) == i.severity \in Severities /\ i.category \in Categories

\* C23: totality.  On well-formed input (precisions day, month or year, a
\* start date, an end date that is null or not before the start, event types
\* entry or exit) the gap detectors, the overlap detectors, the joint
\* residence matcher and the travel analyzer end with a result and never
\* raise, and every finding of the result is an Issue value.
C23_Totality ==
  /\ pc # "raised"
  /\ pc = "done" =>
       /\ \A i \in 1..Len(issues) : IsIssue(issues[i])
       /\ \A i \in 1..Len(joint.issues) : IsIssue(joint.issues[i])
       /\ \A i \in 1..Len(travel.issues) : IsIssue(travel.issues[i])

(***************************************************************************)
(* Tagging (issues.py): findings of the detectors, untagged or already     *)
(* tagged, are given the id of a record; the tagged list may be tagged     *)
(* again with another id.                                                  *)
(***************************************************************************)
\* longest list of issues handed to tag_issues
MaxIssues == 3

\* a start gap and an interior gap as the gap detectors return them, the
\* matcher's issue (which carries a ref_id), and a finding tagged before
Findings ==
  { Issue("high", "address_history", "start_gap", date(2020, 1, 1), date(2020, 1, 31), 31),
    Issue("medium", "employment", "middle_gap", date(2020, 3, 1), date(2020, 3, 9), 9),
    JointIssue("loose_only"),
    [Issue("high", "travel", "unmatched_exit", date(2020, 2, 1), None, None)
       EXCEPT !.ref_id = "travel[0]"] }

RefIds == {"addr[0]", "emp[1]"}

InitTagging ==
  /\ window_start = date(2020, 1, 1)
  /\ window_end = date(2020, 12, 31)
  /\ date_arg = DateWithPrecision(window_start, "day")
  /\ addresses = <<>>
  /\ employment = <<>>
  /\ petitioner = <<>>
  /\ beneficiary = <<>>
  /\ travel_entries = <<>>
  /\ pc = "ready"
  /\ op = "none"
  /\ range_start = None
  /\ range_end = None
  /\ ranges = <<>>
  /\ issues \in SeqsUpTo(Findings, MaxIssues)
  /\ joint = [first_shared_date |-> None, match_type |-> NoneStr,
              windows |-> <<>>, issues |-> <<>>]
  /\ travel = TravelAnalysisResult(<<>>, <<>>, NoneStr, None, Nothing)
  /\ ref_id \in RefIds
  /\ tagged = <<>>

TagIssues ==
  /\ Ran("tag_issues")
  /\ tagged' = tag_issues(issues, ref_id)
  /\ UNCHANGED <<Inputs, range_start, range_end, ranges, issues, joint, travel>>

\* tag_issue on the first finding of the list
TagIssue ==
  /\ issues # <<>>
  /\ Ran("tag_issue")
  /\ tagged' = <<tag_issue(issues[1], ref_id)>>
  /\ UNCHANGED <<Inputs, range_start, range_end, ranges, issues, joint, travel>>

\* the tagged findings are tagged once more, with any id
TagAgain ==
  /\ pc = "done"
  /\ pc' = "again"
  /\ \E id \in RefIds :
        tagged' = IF op = "tag_issues" THEN tag_issues(tagged, id)
                  ELSE <<tag_issue(tagged[1], id)>>
  /\ UNCHANGED <<Inputs, op, range_start, range_end, ranges, issues, joint, travel>>

NextTagging == TagIssues \/ TagIssue \/ TagAgain

SpecTagging == InitTagging /\ [][NextTagging]_vars

\* the tagged issue is the input issue but for ref_id, which is the given id
\* where the input had none
TaggedFrom(t, i) ==
  /\ t.severity = i.severity
  /\ t.category = i.category
  /\ t.message = i.message
  /\ t.suggested_question = i.suggested_question
  /\ t.ref_id = IF i.ref_id = NoneStr THEN ref_id ELSE i.ref_id

\* C24: tagging.  tag_issues and tag_issue return issues whose severity,
\* category, message and suggested_question are those of the input, in the
\* same order and number; ref_id is the given id exactly where the input had
\* none, and an existing ref_id is kept; the input list is not modified; and
\* tagging the result again, with any id, changes nothing.
C24_Tagging ==
  /\ [](Done("tag_issues") =>
          /\ Len(tagged) = Len(issues)
          /\ \A k \in 1..Len(issues) : TaggedFrom(tagged[k], issues[k]))
  /\ [](Done("tag_issue") =>
          /\ Len(tagged) = 1
          /\ TaggedFrom(tagged[1], issues[1]))
  /\ [][issues' = issues]_vars
  /\ [][pc = "done" /\ pc' = "again" => tagged' = tagged]_vars

\* an untagged finding, the matcher's issue and an untagged finding were
\* tagged with one id and then tagged again: the first id stands
C24_Witness ==
  /\ pc = "again"
  /\ op = "tag_issues"
  /\ Len(issues) = 3
  /\ issues[1].ref_id = NoneStr
  /\ issues[2].ref_id = "joint_residency"
  /\ issues[3].ref_id = NoneStr
  /\ tagged[1].ref_id = ref_id
  /\ tagged[2].ref_id = "joint_residency"
  /\ tagged[3].ref_id = ref_id

(***************************************************************************)
(* The four range builders and the four detectors on the same dates: the   *)
(* address list, the employment list and the petitioner's address list     *)
(* carry the same (date_from, from_precision, date_to, to_precision).      *)
(***************************************************************************)
BuilderEntries ==
  { Dated(date(2021, 2, 10), "month", date(2021, 6, 15), "day"),
    Dated(date(2021, 2, 10), "day", date(2021, 2, 10), "month"),
    Dated(date(2021, 6, 15), "year", None, "day"),
    Dated(date(2020, 6, 15), "day", date(2021, 1, 5), "month"),
    Dated(date(2021, 11, 20), "month", date(2021, 12, 5), "day"),
    Dated(date(2022, 3, 1), "day", None, "day") }

InitBuilders ==
  /\ \E w \in RangeWindows : window_start = w[1] /\ window_end = w[2]
  /\ \E ds \in SeqsUpTo(BuilderEntries, MaxEntries) :
        /\ addresses = AsAddresses(ds)
        /\ employment = AsEmployments(ds)
  /\ petitioner = addresses
  /\ beneficiary = <<>>
  /\ date_arg = DateWithPrecision(window_start, "day")
  /\ travel_entries = <<>>
  /\ ref_id = NoneStr
  /\ NoResult

\* _build_ranges of joint_residency.py on the petitioner's addresses
BuildRanges ==
  /\ Ran("build_ranges")
  /\ ranges' = build_ranges(petitioner, window_start, window_end)
  /\ UNCHANGED <<Inputs, range_start, range_end, issues, joint, travel, tagged>>

\* _build_employment_ranges of travel_intelligence.py
TravelBuildEmploymentRanges ==
  /\ Ends("travel_build_employment_ranges", employment_attribute_error(employment))
  /\ ranges' = IF employment_attribute_error(employment) THEN ranges
                ELSE travel_build_employment_ranges(employment, window_start, window_end)
  /\ UNCHANGED <<Inputs, range_start, range_end, issues, joint, travel, tagged>>

NextBuilders ==
  \/ BuildAddressRanges
  \/ BuildEmploymentRanges
  \/ BuildRanges
  \/ TravelBuildEmploymentRanges
  \/ DetectAddressGaps
  \/ DetectEmploymentGaps
  \/ DetectAddressOverlaps
  \/ DetectEmploymentOverlaps

SpecBuilders == InitBuilders /\ [][NextBuilders]_vars

DatesOf(e) == Dated(e.date_from, e.from_precision, e.date_to, e.to_precision)

\* the entries kept, in the builder's order, each with its clamped range
Clamped(rs) == [i \in 1..Len(rs) |-> <<rs[i].start, rs[i].end, DatesOf(rs[i].entry)>>]

\* severity and date range of each issue, in the detector's order
Reported(is) ==
  [i \in 1..Len(is) |->
     <<is[i].severity, is[i].message.from, is[i].message.to, is[i].message.days>>]

BuilderNames ==
  {"build_address_ranges", "build_employment_ranges", "build_ranges",
   "travel_build_employment_ranges"}

MaxRanges == 3

GapEntries ==
  { Dated(date(2022, 6, 10), "day", date(2022, 7, 20), "day"),
    Dated(date(2022, 6, 15), "day", date(2022, 6, 25), "day"),
    Dated(date(2022, 7, 10), "day", date(2022, 8, 10), "day"),
    Dated(date(2022, 7, 21), "day", date(2022, 8, 31), "day"),
    Dated(date(2022, 8, 10), "month", date(2022, 8, 10), "month"),
    Dated(date(2022, 9, 10), "day", None, "day"),
    Dated(date(2022, 1, 1), "day", date(2022, 3, 1), "day") }

InitGaps ==
  /\ window_start = date(2022, 6, 1)
  /\ window_end = date(2022, 9, 30)
  /\ \E ds \in SeqsUpTo(GapEntries, MaxRanges) :
        /\ addresses = AsAddresses(ds)
        /\ employment = AsEmployments(ds)
  /\ petitioner = <<>>
  /\ beneficiary = <<>>
  /\ date_arg = DateWithPrecision(window_start, "day")
  /\ travel_entries = <<>>
  /\ ref_id = NoneStr
  /\ NoResult

NextGaps == DetectAddressGaps \/ DetectEmploymentGaps

SpecGaps == InitGaps /\ [][NextGaps]_vars

\* the gap issues are the maximal runs of the days of the window that the
\* entries es leave uncovered, in increasing order
GapsPartition(es) ==
  LET n == Len(issues)
      covered == CoveredDays(es)
      uncovered == WindowDays \ covered
  IN /\ \A k \in 1..n :
           /\ issues[k].message.kind \in GapKinds
           /\ issues[k].message.from <= issues[k].message.to
           /\ issues[k].message.from = window_start
                \/ issues[k].message.from - 1 \in covered
           /\ issues[k].message.to = window_end
                \/ issues[k].message.to + 1 \in covered
           /\ issues[k].message.kind = "start_gap" <=>
                issues[k].message.from = window_start
           /\ issues[k].message.kind = "end_gap" <=>
                (issues[k].message.to = window_end
                   /\ issues[k].message.from # window_start)
     /\ \A k \in 1..(n - 1) : issues[k].message.to < issues[k + 1].message.from
     /\ UNION {IssueDays(issues[k]) : k \in 1..n} = uncovered

OverlapEntries ==
  { Dated(date(2022, 6, 1), "day", date(2022, 7, 31), "day"),
    Dated(date(2022, 6, 10), "day", date(2022, 6, 20), "day"),
    Dated(date(2022, 7, 15), "day", date(2022, 8, 15), "day"),
    Dated(date(2022, 7, 10), "month", date(2022, 7, 10), "month"),
    Dated(date(2022, 8, 1), "day", None, "day"),
    Dated(date(2022, 8, 16), "day", date(2022, 9, 30), "day") }

InitOverlaps ==
  /\ window_start = date(2022, 6, 1)
  /\ window_end = date(2022, 9, 30)
  /\ \E ds \in SeqsUpTo(OverlapEntries, MaxRanges) :
        /\ addresses = AsAddresses(ds)
        /\ employment = AsEmployments(ds)
  /\ petitioner = <<>>
  /\ beneficiary = <<>>
  /\ date_arg = DateWithPrecision(window_start, "day")
  /\ travel_entries = <<>>
  /\ ref_id = NoneStr
  /\ NoResult

NextOverlaps == DetectAddressOverlaps \/ DetectEmploymentOverlaps

SpecOverlaps == InitOverlaps /\ [][NextOverlaps]_vars

\* first and last day of a non-empty set of days
FirstDay(S) == CHOOSE o \in S : \A q \in S : o <= q

LastDay(S) == CHOOSE o \in S : \A q \in S : q <= o

\* positions of the intervals c that are not empty
Kept(c) == {i \in DOMAIN c : c[i] # {}}

\* interval i comes before interval j in (start, end) order; equal intervals
\* stay in the order of the list
Earlier(c, i, j) ==
  \/ FirstDay(c[i]) < FirstDay(c[j])
  \/ FirstDay(c[i]) = FirstDay(c[j]) /\ LastDay(c[i]) < LastDay(c[j])
  \/ FirstDay(c[i]) = FirstDay(c[j]) /\ LastDay(c[i]) = LastDay(c[j]) /\ i < j

EarlierThan(c, j) == {i \in Kept(c) : Earlier(c, i, j)}

\* the intervals that share a day with an earlier one
Overlapping(c) == {j \in Kept(c) : \E i \in EarlierThan(c, j) : c[i] \cap c[j] # {}}

\* the days interval j shares with earlier intervals
SharedWithEarlier(c, j) == UNION {c[i] \cap c[j] : i \in EarlierThan(c, j)}

\* issue k reports interval j: its intersection with the earlier interval
\* that ends last, which holds its intersection with every earlier interval
ReportsOverlapOf(c, k, j) ==
  /\ IssueDays(issues[k]) = SharedWithEarlier(c, j)
  /\ \E p \in EarlierThan(c, j) :
        /\ \A i \in EarlierThan(c, j) : LastDay(c[i]) <= LastDay(c[p])
        /\ IssueDays(issues[k]) = c[p] \cap c[j]

OverlapsExact(es) ==
  LET c == ClampedOf(es) IN
  /\ (issues = <<>>) <=> (\A i \in Kept(c) : \A j \in Kept(c) \ {i} : c[i] \cap c[j] = {})
  /\ Len(issues) = Cardinality(Overlapping(c))
  /\ Kept(c) # {} => Len(issues) <= Cardinality(Kept(c)) - 1
  /\ \A j \in Overlapping(c) : \E k \in 1..Len(issues) : ReportsOverlapOf(c, k, j)
  /\ \A k \in 1..Len(issues) : \E j \in Overlapping(c) : ReportsOverlapOf(c, k, j)

MaxStream == 4

StreamDates == { date(2020, 3, 1), date(2020, 3, 2), date(2020, 3, 5) }

StreamEvents ==
  {ExitEvent(d) : d \in StreamDates} \cup {CompleteEntry(d) : d \in StreamDates}

InitStream ==
  /\ window_start = date(2020, 1, 1)
  /\ window_end = date(2020, 12, 31)
  /\ travel_entries \in SeqsUpTo(StreamEvents, MaxStream)
  /\ date_arg = DateWithPrecision(window_start, "day")
  /\ addresses = <<>>
  /\ employment = <<>>
  /\ petitioner = <<>>
  /\ beneficiary = <<>>
  /\ ref_id = NoneStr
  /\ NoResult

NextStream == AnalyzeTravel

SpecStream == InitStream /\ [][NextStream]_vars

NthPaired(i) == CHOOSE k \in PairedAt : Cardinality({q \in PairedAt : q <= k}) = i

\* some issue of the result names the entry at position k of the stream
EntryReported(k) ==
  \E i \in 1..Len(travel.issues) :
     \/ /\ travel.issues[i].message.kind \in {"first_event_entry", "entry_without_exit"}
        /\ travel.issues[i].message.from = Stream[k].date
     \/ /\ travel.issues[i].message.kind = "two_entries_in_a_row"
        /\ travel.issues[i].message.to = Stream[k].date

\* a high issue of the given kind names the exit at position k of the stream
ExitReported(k, kind) ==
  \E i \in IssuesOfKind(kind) :
     /\ travel.issues[i].severity = "high"
     /\ travel.issues[i].message.from = Stream[k].date

StrictWindows == {k \in 1..Len(joint.windows) : joint.windows[k].match_type = "strict"}

\* C30: in the joint residence result the approximate-match issue depends on
\* the whole windows list and not on the selected window.  issues is empty
\* exactly when some window is strict; so a result whose match_type is loose
\* (the earliest window is loose) has no issue when a strict window starts
\* later, and a result whose match_type is strict never has an issue.
C30_IssueFromAllWindows ==
  Done("detect_joint_residency_start") =>
    /\ (joint.issues = <<>>) <=> (StrictWindows # {})
    /\ joint.windows # <<>> =>
          /\ joint.match_type = joint.windows[1].match_type
          /\ joint.first_shared_date = joint.windows[1].start
    /\ joint.match_type = "strict" => joint.issues = <<>>
    /\ (joint.match_type = "loose" /\ StrictWindows # {}) =>
          /\ joint.issues = <<>>
          /\ \A k \in StrictWindows : joint.windows[k].start > joint.first_shared_date

\* the selected window is loose, a strict window starts on a later day, and
\* the result carries no issue
C30_Witness ==
  /\ Done("detect_joint_residency_start")
  /\ joint.match_type = "loose"
  /\ joint.windows[1].match_type = "loose"
  /\ \E k \in StrictWindows : joint.windows[k].start > joint.windows[1].start
  /\ joint.issues = <<>>

=============================================================================
